---------------------------- MODULE Spec2Model ----------------------------
(***************************************************************************)
(* The status-caching API client of homebridge-arctic-spas (spaClient.ts): *)
(* SpaClient.getStatus, the write operations and requestJson, run on a     *)
(* single-threaded event loop.  One step of the model is one run-to-       *)
(* completion piece of JavaScript: the synchronous part of a call, or the  *)
(* chain of continuations that an I/O event or a timer releases.           *)
(*                                                                         *)
(* Time is in milliseconds and is observed every 1000 ms.  Date.now() is   *)
(* taken to be non-decreasing.                                             *)
(***************************************************************************)
EXTENDS Integers, Sequences, FiniteSets

VARIABLES
    minIntervalMs,   \* SpaClient.minIntervalMs (readonly, set by the constructor)
    timeoutMs,       \* SpaClient.timeoutMs     (readonly, set by the constructor)
    now,             \* Date.now()
    lastStatus,      \* SpaClient.lastStatus
    lastFetchTime,   \* SpaClient.lastFetchTime
    inFlight,        \* SpaClient.inFlight: 0 for null, else the request whose promise it holds
    reqs,            \* the requestJson activations, by request id
    nGets,           \* how many GET /status requests have been issued so far
    calls,           \* the getStatus calls and what each was answered with
    nCalls,          \* how many getStatus calls have been made so far
    lastGood,        \* the payload of the latest GET /status that succeeded
    writes,          \* the write calls that have not returned yet, by caller
    config,          \* ArcticSpasPlatform.config (the part that is modelled)
    platform,        \* the other fields of ArcticSpasPlatform, and what the host did
    setup,           \* setupAccessories: the accessory it constructs next (0: no platform)
    accessories,     \* the accessory objects, by name
    handlers,        \* the write handlers that the host has invoked, by invocation
    payloads         \* what the JSON status payloads contain, by fetch

vars == <<minIntervalMs, timeoutMs, now, lastStatus, lastFetchTime, inFlight,
          reqs, nGets, calls, nCalls, lastGood, writes,
          config, platform, setup, accessories, handlers, payloads>>

\* The state of the platform and its accessories.
platformVars == <<config, platform, setup, accessories, handlers, payloads>>

(***************************************************************************)
(* Bounds of the model.                                                    *)
(***************************************************************************)
MaxTicks == 2        \* the clock runs from 0 to MaxTicks seconds
MaxCalls == 2        \* getStatus calls in one behaviour of Spec (reads and writes)
MaxReads == 3        \* getStatus calls in one behaviour of ReadSpec (reads only)
WriteTicks == 1      \* with writes the clock runs from 0 to WriteTicks seconds
PollTicks == 3       \* with the polling accessories the clock ticks PollTicks times
HostTicks == 1       \* with the write handlers the clock ticks HostTicks times
MaxRestored == 1     \* cached accessories that the host restores before the launch
MaxPieces == 4       \* pieces that a status text of the health indicator is made of

\* The configurations explored: constructor arguments minIntervalMs, timeoutMs.
MinIntervals == {0, 1000}
Timeouts == {1000}

\* The callers of the write operations; each has one write outstanding at a
\* time.  A GET is identified by its issue number 1, 2, ...; the request of
\* a writer by the writer's (negative) number.
Writers == {-1}

Null == [kind |-> "null", from |-> 0]

\* JavaScript truthiness of what lastStatus can hold: null, undefined (the
\* result of a 204) and the empty string are falsy; an object and a
\* non-empty string are truthy.
Truthy(v) == v.kind \in {"obj", "text"}

NoResult == [st |-> "pending", kind |-> "none", aborted |-> FALSE]


Last(s) == s[Len(s)]

GetIds == {r \in DOMAIN reqs : reqs[r].method = "GET"}
PutIds == {r \in DOMAIN reqs : reqs[r].method = "PUT"}
Unsettled(r) == reqs[r].phase # "done"

\* The GET /status requests that are outstanding.
PendingGets == {r \in GetIds : Unsettled(r)}

\* The accessories in the order in which setupAccessories constructs them.
AccessoryOrder == <<"environment", "lights", "pumps", "ph", "orp">>

\* A client that is used without the platform.
NoConfig ==
    [pollIntervalSeconds |-> 0, enableLights |-> FALSE, enablePh |-> FALSE,
     enableOrp |-> FALSE, enabledPump |-> "none", enabledSwitch |-> "none",
     apiKey |-> "", pollIntervalType |-> "undefined"]

\* The fields of the platform: pollIntervalMs, client (is there one),
\* listening (is its didFinishLaunching handler registered), and what the
\* host has done: launched (it has emitted didFinishLaunching), restored
\* (the cached accessories it has handed to configureAccessory).
NoPlatformObject ==
    [pollIntervalMs |-> 0, client |-> FALSE, listening |-> FALSE,
     launched |-> FALSE, restored |-> 0]

NoPlatform ==
    /\ config = NoConfig
    /\ platform = NoPlatformObject
    /\ setup = 0
    /\ accessories = <<>>
    /\ handlers = <<>>
    /\ payloads = <<>>

Init ==
    /\ NoPlatform
    /\ minIntervalMs \in MinIntervals
    /\ timeoutMs \in Timeouts
    /\ now = 0
    /\ lastStatus = Null
    /\ lastFetchTime = 0
    /\ inFlight = 0
    /\ reqs = <<>>
    /\ nGets = 0
    /\ calls = <<>>
    /\ nCalls = 0
    /\ lastGood = Null
    /\ writes = <<>>

(***************************************************************************)
(* requestJson, up to its first await: the AbortController and its timer   *)
(* are created and fetch() is called.                                      *)
(***************************************************************************)
\* Mutant: the request is sent without arming the abort timer.
NewRequestNoTimer(method, path, body) ==
    [method |-> method, path |-> path, body |-> body,
     phase |-> "fetch", timer |-> FALSE, deadline |-> now + timeoutMs,
     status |-> 0, res |-> NoResult]

NewRequest(method, path, body) ==
    [method |-> method, path |-> path, body |-> body,
     phase |-> "fetch", timer |-> TRUE, deadline |-> now + timeoutMs,
     status |-> 0, res |-> NoResult]

With(rs, id, rec) == [r \in DOMAIN rs \cup {id} |-> IF r = id THEN rec ELSE rs[r]]

Restrict(rs, ids) == [r \in ids |-> rs[r]]

\* The calls whose awaited promise has settled and whose continuation has not
\* run yet.  Their continuations are microtasks: they all run, in the order
\* in which the calls were made, before the event loop takes its next task
\* (a network event, a timer, the passing of time).
Deliverable ==
    {c \in 1..Len(calls) :
        calls[c].st = "pending" /\ reqs[calls[c].fetch].phase = "done"}

\* The write calls whose request has settled and that have not resumed yet.
Returnable == {w \in PutIds : ~Unsettled(w)}

\* setupAccessories is running: it constructs the accessories one after the
\* other in one synchronous pass.
Building == setup \in 1..Len(AccessoryOrder)

\* The write handlers that have settled and whose outcome the host has not
\* taken yet.
Answerable == {w \in DOMAIN handlers : handlers[w].outcome # "awaiting"}

Quiescent == Deliverable = {} /\ Returnable = {} /\ ~Building /\ Answerable = {}

\* What is still of interest when a new call is made: the calls that are
\* pending, and the requests that are outstanding or awaited.
OpenCalls == SelectSeq(calls, LAMBDA c : c.st = "pending")

OpenReqs ==
    Restrict(reqs, {r \in DOMAIN reqs :
        \/ Unsettled(r)
        \/ r \in PutIds
        \/ \E i \in 1..Len(calls) : calls[i].st = "pending" /\ calls[i].fetch = r})

\* Mutant: a zero interval falls back to one second (minIntervalMs || 1000).
IsFreshDefaulted(t) ==
    /\ Truthy(lastStatus)
    /\ t - lastFetchTime < (IF minIntervalMs = 0 THEN 1000 ELSE minIntervalMs)

\* Mutant: the age is compared with <=.
IsFreshInclusive(t) == Truthy(lastStatus) /\ t - lastFetchTime <= minIntervalMs

\* getStatus step 1: "if we have fresh data"
IsFresh(t) == Truthy(lastStatus) /\ t - lastFetchTime < minIntervalMs

\* Mutant: the shared promise is consulted only once a status is cached.
HasInFlightOnceCached == inFlight # 0 /\ Truthy(lastStatus)

\* getStatus step 2: "if a request is already in flight"
HasInFlight == inFlight # 0

\* Mutant: the promise of the new request is returned but not stored.
SetInFlightLost(id) == inFlight' = inFlight

\* getStatus step 3: this.inFlight = (async () => { ... })()
SetInFlight(id) == inFlight' = id

(***************************************************************************)
(* getStatus(), the synchronous part of the call.  cs and rs are the calls *)
(* and requests that the model keeps track of.                             *)
(***************************************************************************)
GetStatusCall(cs, rs) ==
    /\ nCalls' = nCalls + 1
    /\ IF IsFresh(now)
       THEN /\ calls' = Append(cs, [how |-> "cache", fetch |-> 0,
                                    st |-> "ok", val |-> lastStatus])
            /\ reqs' = rs
            /\ UNCHANGED <<inFlight, nGets>>
       ELSE IF HasInFlight
       THEN /\ calls' = Append(cs, [how |-> "join", fetch |-> inFlight,
                                    st |-> "pending", val |-> Null])
            /\ reqs' = rs
            /\ UNCHANGED <<inFlight, nGets>>
       ELSE /\ reqs' = With(rs, nGets + 1, NewRequest("GET", "/status", "none"))
            /\ nGets' = nGets + 1
            /\ SetInFlight(nGets + 1)
            /\ calls' = Append(cs, [how |-> "fetch", fetch |-> nGets + 1,
                                    st |-> "pending", val |-> Null])
    /\ UNCHANGED <<minIntervalMs, timeoutMs, now, lastStatus, lastFetchTime, lastGood, writes>>

\* A caller of the client alone starts a request only if the timer of the
\* request is due before the clock stops.
InTime == config # NoConfig \/ now + timeoutMs <= MaxTicks * 1000

GetStatus ==
    /\ nCalls < MaxCalls
    /\ InTime
    /\ GetStatusCall(OpenCalls, OpenReqs)
    /\ UNCHANGED platformVars

ReadGetStatus ==
    /\ nCalls < MaxReads
    /\ InTime
    /\ GetStatusCall(OpenCalls, OpenReqs)
    /\ UNCHANGED platformVars

(***************************************************************************)
(* The write operations: each is one requestJson('PUT', ...) and nothing   *)
(* else.                                                                   *)
(***************************************************************************)
NoBody == [key |-> "none", str |-> "none", num |-> 0]
StateBody(s) == [key |-> "state", str |-> s, num |-> 0]
SetpointBody(x) == [key |-> "setpointF", str |-> "none", num |-> x]
OnOff(on) == IF on THEN "on" ELSE "off"

\* The arguments with which the writes are called next to the reads.
Setpoints == {100}
Switches == {TRUE}
PumpIds == {"1"}
PumpStates == {"low"}
BlowerIds == {"1"}
BlowerStates == {"off"}
ToggleNames == {"easymode"}

\* A write call as its caller w made it: the operation and its arguments.
WriteOp(by, op, sel, setting, flag, amount) ==
    [by |-> by, op |-> op, sel |-> sel, setting |-> setting, flag |-> flag,
     amount |-> amount]

\* Mutant: a write is not sent while the same PUT is outstanding (writes
\* coalesced the way getStatus coalesces reads).
PutCoalesced(w, call, path, body) ==
    /\ InTime
    /\ w \notin DOMAIN reqs
    /\ reqs' = IF \E v \in PutIds :
                     Unsettled(v) /\ reqs[v].path = path /\ reqs[v].body = body
               THEN reqs
               ELSE With(reqs, w, NewRequest("PUT", path, body))
    /\ writes' = With(writes, w, call)
    /\ UNCHANGED <<minIntervalMs, timeoutMs, now, lastStatus, lastFetchTime, inFlight,
                   nGets, calls, nCalls, lastGood>>

\* await this.requestJson('PUT', path, body), up to the await.  w is the
\* caller; it has one write outstanding at a time.
Put(w, call, path, body) ==
    /\ InTime
    /\ w \notin DOMAIN reqs
    /\ reqs' = With(reqs, w, NewRequest("PUT", path, body))
    /\ writes' = With(writes, w, call)
    /\ UNCHANGED <<minIntervalMs, timeoutMs, now, lastStatus, lastFetchTime, inFlight,
                   nGets, calls, nCalls, lastGood>>

setTemperatureF(w, setpointF) ==
    Put(w, WriteOp(w, "setTemperatureF", "none", "none", FALSE, setpointF),
        "/temperature", SetpointBody(setpointF))

setLights(w, on) ==
    Put(w, WriteOp(w, "setLights", "none", "none", on, 0),
        "/lights", StateBody(OnOff(on)))

setPump(w, pump, state) ==
    Put(w, WriteOp(w, "setPump", pump, state, FALSE, 0),
        "/pumps/" \o pump, StateBody(state))

setBlower(w, blower, state) ==
    Put(w, WriteOp(w, "setBlower", blower, state, FALSE, 0),
        "/blowers/" \o blower, StateBody(state))

setToggle(w, path, on) ==
    Put(w, WriteOp(w, "setToggle", path, "none", on, 0),
        "/" \o path, StateBody(OnOff(on)))

boost(w) ==
    Put(w, WriteOp(w, "boost", "none", "none", FALSE, 0), "/boost", NoBody)

(***************************************************************************)
(* Settlement of requestJson.  Its finally block clears the timer; the     *)
(* continuation of the caller runs in the same turn of the event loop.     *)
(* For a GET that is the async arrow of getStatus: on success it stores    *)
(* the payload and the time, and its finally block clears inFlight.        *)
(***************************************************************************)
\* What requestJson returns or throws.  aborted tells whether the timer had
\* fired (controller.abort()); the caller cannot see it.
Ok(kind) == [st |-> "ok", kind |-> kind, aborted |-> FALSE]
Err(kind) == [st |-> "err", kind |-> kind, aborted |-> FALSE]
Aborted(res) == [res EXCEPT !.aborted = TRUE]

\* The response of request r has arrived: res.status.  (status is 0 as long
\* as there is no response, and again once the request has settled.)
Heard(r, head) == [reqs EXCEPT ![r].status = head.status]

\* Mutant: a request that failed is sent again (catch { retry }).
FinishRetry(rs, r, res) ==
    IF res.st = "err"
    THEN [rs EXCEPT ![r] = NewRequest(rs[r].method, rs[r].path, rs[r].body)]
    ELSE [rs EXCEPT ![r].phase = "done", ![r].timer = FALSE, ![r].deadline = 0,
                    ![r].status = 0, ![r].res = res]

\* Mutant: requestJson settles without clearTimeout(timer).
FinishArmed(rs, r, res) ==
    [rs EXCEPT ![r].phase = "done", ![r].status = 0, ![r].res = res]

Finish(rs, r, res) ==
    [rs EXCEPT ![r].phase = "done", ![r].timer = FALSE, ![r].deadline = 0,
               ![r].status = 0, ![r].res = res]

\* Mutant: the payload is stored and the time of the fetch is not.
StoreStatusNoTime(r, res) ==
    /\ lastStatus' = [kind |-> res.kind, from |-> r]
    /\ lastFetchTime' = lastFetchTime

\* Mutant: only the first payload is stored (this.lastStatus ??= data).
StoreStatusOnce(r, res) ==
    /\ lastStatus' = IF lastStatus = Null THEN [kind |-> res.kind, from |-> r]
                     ELSE lastStatus
    /\ lastFetchTime' = now

\* lines 80-81: this.lastStatus = data; this.lastFetchTime = Date.now()
StoreStatus(r, res) ==
    /\ lastStatus' = [kind |-> res.kind, from |-> r]
    /\ lastFetchTime' = now

\* Mutant: what a failed fetch threw is stored as if it were a status.
StoreFailure(r, res) ==
    /\ lastStatus' = [kind |-> res.kind, from |-> r]
    /\ lastFetchTime' = now

\* Mutant: a failed refresh evicts the cached status (catch { lastStatus = null }).
EvictStatus(r, res) ==
    /\ lastStatus' = Null
    /\ lastFetchTime' = lastFetchTime

\* requestJson threw: lines 80-81 are skipped, and there is no catch block.
KeepStatus(r, res) == UNCHANGED <<lastStatus, lastFetchTime>>

\* Mutant: the marker is cleared after the await, not in a finally block.
ClearInFlightOnSuccess(r, res) == inFlight' = IF res.st = "ok" THEN 0 ELSE inFlight

\* Mutant: the marker is not cleared by the step that settles the fetch.
ClearInFlightMissing(r, res) == inFlight' = inFlight

\* line 84: finally { this.inFlight = null }
ClearInFlight(r, res) == inFlight' = 0

\* Mutant: a write that succeeded invalidates the cached status.
WriteSettledInvalidates(r, res) ==
    /\ lastStatus' = IF res.st = "ok" THEN Null ELSE lastStatus
    /\ UNCHANGED <<lastFetchTime, inFlight, lastGood>>

\* A write operation after its await: nothing but the return.
WriteSettled(r, res) == UNCHANGED <<lastStatus, lastFetchTime, inFlight, lastGood>>

Settle(rs, r, res) ==
    /\ reqs' = Finish(rs, r, res)
    /\ IF reqs[r].method = "GET"
       THEN /\ IF res.st = "ok"
               THEN StoreStatus(r, res)
               ELSE KeepStatus(r, res)
            /\ ClearInFlight(r, res)
            /\ lastGood' = IF res.st = "ok" THEN [kind |-> res.kind, from |-> r]
                           ELSE lastGood
       ELSE WriteSettled(r, res)
    /\ UNCHANGED <<minIntervalMs, timeoutMs, now, nGets, calls, nCalls, writes>>


(***************************************************************************)
(* What the network does to a request that awaits fetch().                 *)
(***************************************************************************)
Statuses == {200, 204, 500}
Heads == [status : Statuses, json : BOOLEAN]

\* res.ok
ResOk(head) == head.status >= 200 /\ head.status <= 299

\* Mutant: a 204 is not singled out; its (absent) body goes to the JSON parser.
HeadPhaseParsesEmpty(head) ==
    IF ~ResOk(head) THEN "errText"
    ELSE IF ~head.json THEN "text"
    ELSE "json"

\* Where requestJson goes once the response is there: the body read that
\* it awaits, or "done" when it returns at once.
HeadPhase(head) ==
    IF ~ResOk(head) THEN "errText"            \* await safeReadText(res); throw
    ELSE IF head.status = 204 THEN "done"     \* return undefined
    ELSE IF ~head.json THEN "text"            \* await safeReadText(res); return text
    ELSE "json"                               \* await res.json()

ResponseHead(r, head) ==
    /\ Quiescent
    /\ reqs[r].phase = "fetch"
    /\ UNCHANGED platformVars
    /\ IF HeadPhase(head) = "done"
       THEN Settle(Heard(r, head), r, Ok("undef"))
       ELSE /\ reqs' = [Heard(r, head) EXCEPT ![r].phase = HeadPhase(head)]
            /\ UNCHANGED <<minIntervalMs, timeoutMs, now, lastStatus, lastFetchTime,
                       inFlight, nGets, calls, nCalls, lastGood, writes>>

\* fetch() rejects: no response (DNS, connection reset, ...)
FetchFails(r) ==
    /\ Quiescent
    /\ reqs[r].phase = "fetch"
    /\ Settle(reqs, r, Err("network"))
    /\ UNCHANGED platformVars

(***************************************************************************)
(* The body read ends.  safeReadText turns a failed read into ''.          *)
(***************************************************************************)
Bodies == {"text", "empty", "fail", "badjson"}

\* Mutant: the body of an error response is read with res.text(), unguarded.
BodyResultUnguarded(phase, body) ==
    CASE phase = "errText" -> IF body = "text" THEN Err("apiText")
                              ELSE IF body = "fail" THEN Err("network")
                              ELSE Err("api")
      [] phase = "text" -> IF body = "text" THEN Ok("text") ELSE Ok("empty")
      [] phase = "json" -> IF body = "text" THEN Ok("obj")
                           ELSE IF body = "fail" THEN Err("network")
                           ELSE Err("parse")

BodyResult(phase, body) ==
    CASE phase = "errText" -> IF body = "text" THEN Err("apiText") ELSE Err("api")
      [] phase = "text" -> IF body = "text" THEN Ok("text") ELSE Ok("empty")
      [] phase = "json" -> IF body = "text" THEN Ok("obj")
                           ELSE IF body = "fail" THEN Err("network")
                           ELSE Err("parse")

BodyRead(r, body) ==
    /\ Quiescent
    /\ reqs[r].phase \in {"errText", "text", "json"}
    /\ reqs[r].phase = "json" => body # "empty"
    /\ reqs[r].phase # "json" => body # "badjson"
    /\ Settle(reqs, r, BodyResult(reqs[r].phase, body))
    /\ UNCHANGED platformVars

(***************************************************************************)
(* The timer of requestJson fires: controller.abort().  A pending fetch()  *)
(* and a pending body read reject with an AbortError.                      *)
(***************************************************************************)
AbortResult(phase) ==
    CASE phase = "fetch" -> Err("abort")
      [] phase = "json" -> Err("abort")
      [] phase = "errText" -> Err("api")
      [] phase = "text" -> Ok("empty")

TimerFire(r) ==
    /\ Quiescent
    /\ Unsettled(r)
    /\ reqs[r].timer
    /\ now >= reqs[r].deadline
    /\ Settle(reqs, r, Aborted(AbortResult(reqs[r].phase)))
    /\ UNCHANGED platformVars

(***************************************************************************)
(* The continuation of a caller that awaits the promise of getStatus.      *)
(***************************************************************************)
\* Mutant: a failed refresh is hidden behind the cached status
\* (catch { if (this.lastStatus) return this.lastStatus; throw e }).
OutcomeStaleOnError(r) ==
    IF reqs[r].res.st = "err" /\ Truthy(lastStatus)
    THEN [st |-> "ok", val |-> lastStatus]
    ELSE [st |-> reqs[r].res.st, val |-> [kind |-> reqs[r].res.kind, from |-> r]]

Outcome(r) == [st |-> reqs[r].res.st, val |-> [kind |-> reqs[r].res.kind, from |-> r]]

(***************************************************************************)
(* The accessory objects (spaEnvironmentAccessory.ts, spaLightsAccessory   *)
(* .ts, spaPumpsAccessory.ts, spaPhAccessory.ts, spaOrpAccessory.ts).      *)
(* Each keeps the status of its latest successful poll in currentStatus    *)
(* and pushes characteristic values to the host (updateCharacteristic).    *)
(* Modelled of the pumps accessory: one enabled pump and one enabled       *)
(* switch (a blower or a toggle), as the configuration names them.         *)
(***************************************************************************)
\* Characteristic.Active
INACTIVE == 0
ACTIVE == 1

\* What an accessory has pushed to the host: pushedBy is the fetch (or, for
\* a write handler, the invocation) whose values were pushed last, On of
\* the light bulb or of the switch, Active and RotationSpeed of the pump.
\* These are the values of the characteristics before any push.
NoShow == [pushedBy |-> 0, On |-> FALSE, Active |-> INACTIVE, RotationSpeed |-> 0]

\* An accessory as its constructor leaves it, up to the first poll: polling
\* is the getStatus call that pollStatus awaits (0: none), answeredBy the
\* fetch that answered the latest poll, due the time of the next tick of
\* its interval timer.
NewAccessoryObject ==
    [currentStatus |-> Null, polling |-> 0, answeredBy |-> 0,
     due |-> now + platform.pollIntervalMs, shown |-> NoShow]

\* What a status payload says about the lights, the enabled pump and the
\* enabled switch.  All fields of SpaStatus are optional.
EmptyObject == [rawLights |-> "absent", rawPump |-> "absent", rawSwitch |-> "absent"]

\* The JSON status payloads that the API sends, besides the empty object.
Snapshots ==
    {[rawLights |-> "on", rawPump |-> "off", rawSwitch |-> "on"],
     [rawLights |-> "off", rawPump |-> "on", rawSwitch |-> "off"],
     [rawLights |-> "absent", rawPump |-> "low", rawSwitch |-> "on"],
     [rawLights |-> "on", rawPump |-> "high", rawSwitch |-> "absent"]}

\* status.lights, getStatusString(status, id): a property read gives
\* undefined on a string, and getStatusValue gives undefined for a falsy
\* status.
Content(v) ==
    IF v.kind = "obj" /\ v.from \in DOMAIN payloads THEN payloads[v.from]
    ELSE EmptyObject

DEFAULT_PUMP_MODES(id) == IF id = "pump1" THEN "three-state" ELSE "two-state"

\* PUMP_DEFS: pumpNumber
PumpNumber(id) ==
    CASE id = "pump1" -> "1"
      [] id = "pump2" -> "2"
      [] id = "pump3" -> "3"
      [] id = "pump4" -> "4"
      [] id = "pump5" -> "5"

\* OTHER_SWITCHES: the ids, and their kind
OTHER_SWITCHES == {"blower1", "blower2", "easymode", "sds", "yess", "fogger", "boost"}

SwitchKind(id) ==
    IF id \in {"blower1", "blower2"} THEN "blower"
    ELSE IF id = "boost" THEN "boost"
    ELSE "toggle"

\* Mutant: the Boost switch is created whatever the configuration says.
isEnabledBoostToo(id) == id \in {config.enabledPump, config.enabledSwitch, "boost"}

\* isEnabled: what enabledSwitches says of the id; it has no entry for
\* boost, which is never enabled.
isEnabled(id) ==
    IF id = "boost" THEN FALSE
    ELSE id \in {config.enabledPump, config.enabledSwitch}

\* The constructor of the pumps accessory: the switches that get a service
\* and with it an onSet handler.
SwitchServices == {id \in OTHER_SWITCHES : isEnabled(id)}

\* cfg.id.replace('blower', '')
BlowerNumber(id) == IF id = "blower1" THEN "1" ELSE "2"

\* The mode of the enabled pump: enabledSwitches carries no pumpModes.
PumpMode == DEFAULT_PUMP_MODES(config.enabledPump)

\* Mutant: a three-state pump goes to high from 75 on (raw < 75).
clampToDiscreteSpeedExclusive(mode, raw) ==
    IF mode = "two-state"
    THEN (IF raw > 0 THEN 100 ELSE 0)
    ELSE IF raw <= 0 THEN 0
    ELSE IF raw < 75 THEN 50
    ELSE 100

clampToDiscreteSpeed(mode, raw) ==
    IF mode = "two-state"
    THEN (IF raw > 0 THEN 100 ELSE 0)
    ELSE IF raw <= 0 THEN 0
    ELSE IF raw <= 75 THEN 50
    ELSE 100

pumpStateFromSpeed(mode, speed) ==
    IF mode = "two-state"
    THEN (IF speed = 0 THEN "off" ELSE "on")
    ELSE IF speed = 0 THEN "off"
    ELSE IF speed = 50 THEN "low"
    ELSE "high"

\* Boolean(state && state !== 'off')
pumpActiveFromState(state) == state # "absent" /\ state # "off"

\* pollStatus of the pumps accessory: the speed it pushes.
PolledSpeed(mode, rawState) ==
    IF mode = "three-state"
    THEN (IF rawState = "high" THEN 100 ELSE IF rawState = "low" THEN 50 ELSE 0)
    ELSE IF pumpActiveFromState(rawState) THEN 100 ELSE 0

\* The read handlers of the pumps accessory.
getPumpActive ==
    IF ~Truthy(accessories["pumps"].currentStatus) THEN FALSE
    ELSE pumpActiveFromState(Content(accessories["pumps"].currentStatus).rawPump)

getPumpSpeed ==
    IF ~Truthy(accessories["pumps"].currentStatus) THEN 0
    ELSE IF PumpMode = "two-state"
    THEN (IF pumpActiveFromState(Content(accessories["pumps"].currentStatus).rawPump)
          THEN 100 ELSE 0)
    ELSE IF Content(accessories["pumps"].currentStatus).rawPump = "high" THEN 100
    ELSE IF Content(accessories["pumps"].currentStatus).rawPump = "low" THEN 50
    ELSE 0

\* Math.round((c * 9) / 5 + 32), for a whole number of degrees
cToF(c) == (18 * c + 325) \div 10

\* pollStatus after the await, when getStatus resolved with v.  The lights,
\* environment, pH and ORP accessories read a property of the status at
\* once, which throws on undefined (the result of a 204); the throw is
\* caught as a failed poll is, after currentStatus has been assigned.
PollThrows(a, v) == a # "pumps" /\ v.kind = "undef"

PollPushes(a, show, v) ==
    CASE a = "lights" ->
            IF Content(v).rawLights # "absent"
            THEN [show EXCEPT !.pushedBy = v.from, !.On = (Content(v).rawLights = "on")]
            ELSE show
      [] a = "pumps" ->
            [pushedBy |-> v.from,
             On |-> (Content(v).rawSwitch = "on"),
             Active |-> IF pumpActiveFromState(Content(v).rawPump)
                        THEN ACTIVE ELSE INACTIVE,
             RotationSpeed |-> PolledSpeed(PumpMode, Content(v).rawPump)]
      [] OTHER -> [show EXCEPT !.pushedBy = v.from]

\* Mutant: a failed poll clears what the accessory holds and shows.
PollFailedResets(acc, r) ==
    [acc EXCEPT !.currentStatus = Null, !.polling = 0, !.answeredBy = r,
                !.shown = NoShow]

\* pollStatus, the catch block: the error is logged.
PollFailed(acc, r) == [acc EXCEPT !.polling = 0, !.answeredBy = r]

PollSucceeded(acc, a, v) ==
    [acc EXCEPT !.currentStatus = v, !.polling = 0, !.answeredBy = v.from,
                !.shown = IF PollThrows(a, v) THEN @ ELSE PollPushes(a, @, v)]

\* The continuation of pollStatus, when the call it awaits is call c.
PollContinues(c) ==
    IF \E a \in DOMAIN accessories : accessories[a].polling = c
    THEN /\ accessories' =
              [a \in DOMAIN accessories |->
                  IF accessories[a].polling # c THEN accessories[a]
                  ELSE IF Outcome(calls[c].fetch).st = "ok"
                  THEN PollSucceeded(accessories[a], a, Outcome(calls[c].fetch).val)
                  ELSE PollFailed(accessories[a], calls[c].fetch)]
         /\ UNCHANGED <<config, platform, setup, handlers, payloads>>
    ELSE UNCHANGED platformVars

\* A write handler as the host invoked it.
Invocation(a, name, arg) ==
    [accessory |-> a, handler |-> name, value |-> arg,
     outcome |-> "awaiting", thrown |-> "none"]

\* setPumpActive, setPumpSpeed after the await: "keep UI in sync".
PumpPushed(show, w, name, value) ==
    IF name = "setPumpActive"
    THEN [show EXCEPT !.pushedBy = w,
                      !.Active = IF value = ACTIVE THEN ACTIVE ELSE INACTIVE,
                      !.RotationSpeed =
                          IF PumpMode = "three-state"
                          THEN (IF value = ACTIVE THEN 50 ELSE 0)
                          ELSE (IF value = ACTIVE THEN 100 ELSE 0)]
    ELSE [show EXCEPT !.pushedBy = w,
                      !.Active =
                          IF pumpStateFromSpeed(PumpMode,
                                 clampToDiscreteSpeed(PumpMode, value)) = "off"
                          THEN INACTIVE ELSE ACTIVE,
                      !.RotationSpeed = clampToDiscreteSpeed(PumpMode, value)]

\* Mutant: the handler logs the error and returns.
HandlerSwallows(h, res) == [h EXCEPT !.outcome = "resolved"]

\* A write handler after the await: it returns, or logs and rethrows what
\* the client threw.
HandlerSettled(h, res) ==
    IF res.st = "ok"
    THEN [h EXCEPT !.outcome = "resolved"]
    ELSE [h EXCEPT !.outcome = "rejected", !.thrown = res.kind]

\* Mutant: the handler pushes the requested state before it looks at the
\* outcome of the write.
HandlerPushesAlways(accs, w, h, res) ==
    IF h.handler \in {"setPumpActive", "setPumpSpeed"}
    THEN [accs EXCEPT !["pumps"].shown = PumpPushed(@, w, h.handler, h.value)]
    ELSE accs

HandlerPushes(accs, w, h, res) ==
    IF res.st = "ok" /\ h.handler \in {"setPumpActive", "setPumpSpeed"}
    THEN [accs EXCEPT !["pumps"].shown = PumpPushed(@, w, h.handler, h.value)]
    ELSE accs

\* The continuation of the write handler that awaits write w.
HandlerContinues(w) ==
    IF w \in DOMAIN handlers /\ handlers[w].outcome = "awaiting"
    THEN /\ handlers' = [handlers EXCEPT ![w] = HandlerSettled(@, reqs[w].res)]
         /\ accessories' = HandlerPushes(accessories, w, handlers[w], reqs[w].res)
         /\ UNCHANGED <<config, platform, setup, payloads>>
    ELSE UNCHANGED platformVars

Deliver(c) ==
    /\ c \in Deliverable
    /\ \A d \in Deliverable : c <= d
    /\ calls' = [calls EXCEPT ![c].st = Outcome(calls[c].fetch).st,
                              ![c].val = Outcome(calls[c].fetch).val]
    /\ UNCHANGED <<minIntervalMs, timeoutMs, now, lastStatus, lastFetchTime, inFlight,
                   reqs, nGets, nCalls, lastGood, writes>>
    /\ PollContinues(c)

\* The continuation of a caller that awaits a write: the call returns (or
\* throws what requestJson threw).
WriteReturn(w) ==
    /\ w \in Returnable
    /\ reqs' = Restrict(reqs, DOMAIN reqs \ {w})
    /\ writes' = Restrict(writes, DOMAIN writes \ {w})
    /\ UNCHANGED <<minIntervalMs, timeoutMs, now, lastStatus, lastFetchTime, inFlight,
                   nGets, calls, nCalls, lastGood>>
    /\ HandlerContinues(w)

Advance ==
    /\ Quiescent
    /\ now' = now + 1000
    /\ UNCHANGED <<minIntervalMs, timeoutMs, lastStatus, lastFetchTime, inFlight,
                   reqs, nGets, calls, nCalls, lastGood, writes>>
    /\ UNCHANGED platformVars

Tick ==
    /\ now + 1000 <= MaxTicks * 1000
    /\ Advance

WriteTick ==
    /\ now + 1000 <= WriteTicks * 1000
    /\ Advance

\* What the network and the timers do.
Network ==
    \/ \E r \in DOMAIN reqs, head \in Heads : ResponseHead(r, head)
    \/ \E r \in DOMAIN reqs : FetchFails(r)
    \/ \E r \in DOMAIN reqs, body \in Bodies : BodyRead(r, body)
    \/ \E r \in DOMAIN reqs : TimerFire(r)

\* What the network, the timers and the microtask queue do.
Transport ==
    \/ Network
    \/ \E c \in 1..Len(calls) : Deliver(c)

Next ==
    \/ GetStatus
    \/ \E w \in Writers, x \in Setpoints : setTemperatureF(w, x)
          /\ UNCHANGED platformVars
    \/ \E w \in Writers, on \in Switches : setLights(w, on)
          /\ UNCHANGED platformVars
    \/ \E w \in Writers, p \in PumpIds, st \in PumpStates : setPump(w, p, st)
          /\ UNCHANGED platformVars
    \/ \E w \in Writers, b \in BlowerIds, st \in BlowerStates : setBlower(w, b, st)
          /\ UNCHANGED platformVars
    \/ \E w \in Writers, t \in ToggleNames, on \in Switches : setToggle(w, t, on)
          /\ UNCHANGED platformVars
    \/ \E w \in Writers : boost(w)
          /\ UNCHANGED platformVars
    \/ \E w \in Writers : WriteReturn(w)
    \/ Transport
    \/ WriteTick

Spec == Init /\ [][Next]_vars

ReadNext ==
    \/ ReadGetStatus
    \/ Transport
    \/ Tick

\* Callers of getStatus only.
ReadSpec == Init /\ [][ReadNext]_vars

(***************************************************************************)
(* Writers only: two callers, each with one write outstanding at a time,   *)
(* so that two writes can be under way together.  The parameter types of   *)
(* the write operations are checked by the compiler only; SpaClient is     *)
(* exported, and at run time a caller can pass any string.  The callers    *)
(* here pass values inside and outside the declared types.                 *)
(***************************************************************************)
WriteCallers == {-1, -2}

AnySetpoints == {100}
AnyPumps == {"1", "all", "7"}
AnyPumpStates == {"low", "turbo"}
AnyBlowers == {"2", "3"}
AnyBlowerStates == {"on", "auto"}
AnyToggles == {"sds", "pool"}

\* The declared parameter types.
PumpDomain == {"1", "2", "3", "4", "5", "all"}
PumpStateDomain == {"off", "on", "low", "high"}
BlowerDomain == {"1", "2", "all"}
OnOffDomain == {"on", "off"}
ToggleDomain == {"easymode", "sds", "yess", "fogger"}

WriteNext ==
    \/ \E w \in WriteCallers, x \in AnySetpoints : setTemperatureF(w, x)
          /\ UNCHANGED platformVars
    \/ \E w \in WriteCallers, on \in BOOLEAN : setLights(w, on)
          /\ UNCHANGED platformVars
    \/ \E w \in WriteCallers, p \in AnyPumps, st \in AnyPumpStates : setPump(w, p, st)
          /\ UNCHANGED platformVars
    \/ \E w \in WriteCallers, b \in AnyBlowers, st \in AnyBlowerStates : setBlower(w, b, st)
          /\ UNCHANGED platformVars
    \/ \E w \in WriteCallers, t \in AnyToggles, on \in BOOLEAN : setToggle(w, t, on)
          /\ UNCHANGED platformVars
    \/ \E w \in WriteCallers : boost(w)
          /\ UNCHANGED platformVars
    \/ \E w \in WriteCallers : WriteReturn(w)
    \/ Network
    \/ WriteTick

WriteSpec == Init /\ [][WriteNext]_vars

(***************************************************************************)
(* The freshness-window scenario: a client constructed with                *)
(* minIntervalMs = 5000 and the default timeout, and getStatus called at   *)
(* t = 0, t = 1000 and t = 6000.  The transport is free: the fetches       *)
(* settle when and how they can.  The calls are kept in full.              *)
(***************************************************************************)
DefaultTimeoutMs == 5000
WindowTicks == 11    \* the clock of the scenario runs from 0 to WindowTicks seconds
WindowCalls == <<0, 1000, 6000>>

WindowInit ==
    /\ NoPlatform
    /\ minIntervalMs = 5000
    /\ timeoutMs = DefaultTimeoutMs
    /\ now = 0
    /\ lastStatus = Null
    /\ lastFetchTime = 0
    /\ inFlight = 0
    /\ reqs = <<>>
    /\ nGets = 0
    /\ calls = <<>>
    /\ nCalls = 0
    /\ lastGood = Null
    /\ writes = <<>>

WindowGetStatus ==
    /\ nCalls < Len(WindowCalls)
    /\ now = WindowCalls[nCalls + 1]
    /\ GetStatusCall(calls, reqs)
    /\ UNCHANGED platformVars

\* Time does not pass over a call that is due.
WindowTick ==
    /\ now + 1000 <= WindowTicks * 1000
    /\ nCalls < Len(WindowCalls) => now < WindowCalls[nCalls + 1]
    /\ Advance

WindowNext ==
    \/ WindowGetStatus
    \/ Transport
    \/ WindowTick

WindowSpec == WindowInit /\ [][WindowNext]_vars

(***************************************************************************)
(* The platform (platform.ts).  Its constructor works out the poll         *)
(* interval and hands it to the client as minIntervalMs; the client keeps  *)
(* its default timeout.  On didFinishLaunching, setupAccessories           *)
(* constructs the accessories; each constructor polls once and starts an   *)
(* interval timer.                                                         *)
(***************************************************************************)
DefaultPollIntervalMs == 60000
MinPollIntervalSeconds == 15

\* Mutant: every configured number is taken as the poll interval.
PollIntervalMsUnchecked(type, seconds) ==
    IF type = "number" THEN seconds * 1000 ELSE DefaultPollIntervalMs

\* The constructor of the platform works out the poll interval: type is
\* typeof config.pollIntervalSeconds.
PollIntervalMs(type, seconds) ==
    IF type = "number" /\ seconds >= MinPollIntervalSeconds
    THEN seconds * 1000
    ELSE DefaultPollIntervalMs

\* The configurations explored with the polls and the handlers.
Configs ==
    {[pollIntervalSeconds |-> 15, enableLights |-> TRUE, enablePh |-> TRUE,
      enableOrp |-> FALSE, enabledPump |-> "pump1", enabledSwitch |-> "blower1",
      apiKey |-> "key", pollIntervalType |-> "number"],
     [pollIntervalSeconds |-> 15, enableLights |-> FALSE, enablePh |-> FALSE,
      enableOrp |-> TRUE, enabledPump |-> "pump2", enabledSwitch |-> "easymode",
      apiKey |-> "key", pollIntervalType |-> "number"]}

\* Mutant: the constructor goes on without an apiKey.
ConstructAnyway(cfg) ==
    [pollIntervalMs |-> PollIntervalMs(cfg.pollIntervalType, cfg.pollIntervalSeconds),
     client |-> TRUE, listening |-> TRUE, launched |-> FALSE, restored |-> 0]

\* The constructor of the platform: without an apiKey it returns before it
\* creates the client and registers the didFinishLaunching handler.
Construct(cfg) ==
    [pollIntervalMs |-> PollIntervalMs(cfg.pollIntervalType, cfg.pollIntervalSeconds),
     client |-> cfg.apiKey # "", listening |-> cfg.apiKey # "",
     launched |-> FALSE, restored |-> 0]

Enabled(a) ==
    CASE a = "lights" -> config.enableLights
      [] a = "ph" -> config.enablePh
      [] a = "orp" -> config.enableOrp
      [] OTHER -> TRUE

PlatformInit ==
    /\ config \in Configs
    /\ platform = [Construct(config) EXCEPT !.launched = TRUE]
    /\ setup = 1
    /\ accessories = <<>>
    /\ handlers = <<>>
    /\ payloads = <<>>
    /\ minIntervalMs = platform.pollIntervalMs
    /\ timeoutMs = DefaultTimeoutMs
    /\ now = 0
    /\ lastStatus = Null
    /\ lastFetchTime = 0
    /\ inFlight = 0
    /\ reqs = <<>>
    /\ nGets = 0
    /\ calls = <<>>
    /\ nCalls = 0
    /\ lastGood = Null
    /\ writes = <<>>

SetupDone == setup = Len(AccessoryOrder) + 1

\* The place that call c has among the calls that are pending.
Reindex(c) ==
    IF c = 0 THEN 0 ELSE Cardinality({d \in 1..c : calls[d].st = "pending"})

\* pollStatus of accessory a, up to the await; accs are the accessories
\* with a among them.  A call that getStatus answers from the cache
\* resolves at once, and the continuation of pollStatus runs before
\* anything else does.
pollStatus(a, accs) ==
    /\ GetStatusCall(OpenCalls, OpenReqs)
    /\ accessories' =
          [b \in DOMAIN accs |->
              IF b # a THEN [accs[b] EXCEPT !.polling = Reindex(@)]
              ELSE IF IsFresh(now) THEN PollSucceeded(accs[a], a, lastStatus)
              ELSE [accs[a] EXCEPT !.polling = Len(OpenCalls) + 1]]

\* One constructor call of setupAccessories: new ArcticSpas...Accessory(...)
\* for an accessory that is enabled.
NewAccessory ==
    /\ Building
    /\ setup' = setup + 1
    /\ IF Enabled(AccessoryOrder[setup])
       THEN /\ pollStatus(AccessoryOrder[setup],
                          With(accessories, AccessoryOrder[setup], NewAccessoryObject))
            /\ UNCHANGED <<config, platform, handlers, payloads>>
       ELSE UNCHANGED <<minIntervalMs, timeoutMs, now, lastStatus, lastFetchTime,
                        inFlight, reqs, nGets, calls, nCalls, lastGood, writes,
                        config, platform, accessories, handlers, payloads>>

\* The interval timers that are due.  They fire in the order in which they
\* were started.
DueTimers == {i \in 1..Len(AccessoryOrder) :
                 /\ AccessoryOrder[i] \in DOMAIN accessories
                 /\ now >= accessories[AccessoryOrder[i]].due}

\* setInterval(() => void this.pollStatus(), this.pollIntervalMs)
PollTick(a) ==
    /\ SetupDone
    /\ Quiescent
    /\ \E i \in DueTimers : AccessoryOrder[i] = a /\ \A j \in DueTimers : i <= j
    /\ pollStatus(a, [accessories EXCEPT ![a].due = @ + platform.pollIntervalMs])
    /\ UNCHANGED <<config, platform, setup, handlers, payloads>>

\* With the platform, time is observed every 5000 ms: the timeout of its
\* client, and a third of the shortest poll interval.
PlatformQuantum == DefaultTimeoutMs

PlatformAdvance ==
    /\ SetupDone
    /\ Quiescent
    /\ now' = now + PlatformQuantum
    /\ UNCHANGED <<minIntervalMs, timeoutMs, lastStatus, lastFetchTime, inFlight,
                   reqs, nGets, calls, nCalls, lastGood, writes>>
    /\ UNCHANGED platformVars

\* Time does not pass over a timer that is due.
PollClock ==
    /\ now + PlatformQuantum <= PollTicks * PlatformQuantum
    /\ DueTimers = {}
    /\ PlatformAdvance

HostClock ==
    /\ now + PlatformQuantum <= HostTicks * PlatformQuantum
    /\ PlatformAdvance

\* The response to a GET /status is a JSON object with content.
StatusBody(r, snapshot) ==
    /\ Quiescent
    /\ reqs[r].method = "GET"
    /\ reqs[r].phase = "json"
    /\ Settle(reqs, r, BodyResult("json", "text"))
    /\ payloads' =
          [f \in {r} \cup {g \in DOMAIN payloads :
                      \E a \in DOMAIN accessories : accessories[a].currentStatus.from = g}
              |-> IF f = r THEN snapshot ELSE payloads[f]]
    /\ UNCHANGED <<config, platform, setup, accessories, handlers>>

(***************************************************************************)
(* The write handlers, as the host invokes them (onSet).  The host has one *)
(* invocation under way at a time for each of its ids.                     *)
(***************************************************************************)
HostIds == {-1}

\* What the host asks for.
TargetTemperatures == {38}
OnValues == {0, 1}
ActiveValues == {INACTIVE, ACTIVE}
Speeds == {0, 75, 76}

Invoked(w, a, name, value) ==
    /\ SetupDone
    /\ Quiescent
    /\ a \in DOMAIN accessories
    /\ handlers' = With(handlers, w, Invocation(a, name, value))
    /\ UNCHANGED <<config, platform, setup, accessories, payloads>>

handleSetTargetTemperature(w, value) ==
    /\ Invoked(w, "environment", "handleSetTargetTemperature", value)
    /\ setTemperatureF(w, cToF(value))

handleSetLights(w, value) ==
    /\ Invoked(w, "lights", "handleSetLights", value)
    /\ setLights(w, value # 0)

setPumpActive(w, value) ==
    /\ Invoked(w, "pumps", "setPumpActive", value)
    /\ IF PumpMode = "two-state"
       THEN setPump(w, PumpNumber(config.enabledPump),
                    IF value = ACTIVE THEN "on" ELSE "off")
       ELSE setPump(w, PumpNumber(config.enabledPump),
                    IF value = ACTIVE THEN "low" ELSE "off")

setPumpSpeed(w, value) ==
    /\ Invoked(w, "pumps", "setPumpSpeed", value)
    /\ setPump(w, PumpNumber(config.enabledPump),
               pumpStateFromSpeed(PumpMode, clampToDiscreteSpeed(PumpMode, value)))

\* setOn when it awaits nothing (boost, with on false): it returns at once.
Returned(w, a, name, value) ==
    /\ SetupDone
    /\ Quiescent
    /\ a \in DOMAIN accessories
    /\ w \notin DOMAIN reqs
    /\ handlers' = With(handlers, w, [Invocation(a, name, value) EXCEPT !.outcome = "resolved"])
    /\ UNCHANGED <<minIntervalMs, timeoutMs, now, lastStatus, lastFetchTime, inFlight,
                   reqs, nGets, calls, nCalls, lastGood, writes,
                   config, platform, setup, accessories, payloads>>

\* setOn of the switch id, one of the switches that have a service.  The
\* boost branch ends by starting a timer that resets the switch.
setOn(w, id, value) ==
    /\ id \in SwitchServices
    /\ CASE SwitchKind(id) = "blower" ->
                /\ Invoked(w, "pumps", "setOn", value)
                /\ setBlower(w, BlowerNumber(id), IF value # 0 THEN "on" ELSE "off")
         [] SwitchKind(id) = "toggle" ->
                /\ Invoked(w, "pumps", "setOn", value)
                /\ setToggle(w, id, value # 0)
         [] SwitchKind(id) = "boost" ->
                IF value # 0
                THEN Invoked(w, "pumps", "setOn", value) /\ boost(w)
                ELSE Returned(w, "pumps", "setOn", value)

\* The host takes the outcome of a handler that has settled: the promise
\* that onSet returned is resolved or rejected.
HostAnswered(w) ==
    /\ w \in Answerable
    /\ handlers' = Restrict(handlers, DOMAIN handlers \ {w})
    /\ UNCHANGED <<minIntervalMs, timeoutMs, now, lastStatus, lastFetchTime, inFlight,
                   reqs, nGets, calls, nCalls, lastGood, writes,
                   config, platform, setup, accessories, payloads>>

\* The accessories and their polls.
PollNext ==
    \/ NewAccessory
    \/ \E a \in DOMAIN accessories : PollTick(a)
    \/ \E r \in DOMAIN reqs, snapshot \in Snapshots : StatusBody(r, snapshot)
    \/ Transport
    \/ PollClock

PollSpec == PlatformInit /\ [][PollNext]_vars

\* The accessories, their first polls and the write handlers.
HostNext ==
    \/ NewAccessory
    \/ \E w \in HostIds, c \in TargetTemperatures : handleSetTargetTemperature(w, c)
    \/ \E w \in HostIds, v \in OnValues : handleSetLights(w, v)
    \/ \E w \in HostIds, v \in ActiveValues : setPumpActive(w, v)
    \/ \E w \in HostIds, v \in Speeds : setPumpSpeed(w, v)
    \/ \E w \in HostIds, id \in OTHER_SWITCHES, v \in OnValues : setOn(w, id, v)
    \/ \E w \in HostIds : WriteReturn(w)
    \/ \E w \in HostIds : HostAnswered(w)
    \/ \E r \in DOMAIN reqs, snapshot \in Snapshots : StatusBody(r, snapshot)
    \/ Transport
    \/ HostClock

HostSpec == PlatformInit /\ [][HostNext]_vars

(***************************************************************************)
(* The platform from its construction on: the host hands it the cached     *)
(* accessories (configureAccessory) and then emits didFinishLaunching.     *)
(***************************************************************************)
ApiKeys == {"", "key"}

\* config.pollIntervalSeconds: its typeof and, for a number, its value.
PollIntervals ==
    {<<"undefined", 0>>, <<"number", 14>>, <<"number", 15>>, <<"number", 16>>,
     <<"string", 20>>}

LaunchConfigs ==
    {[c EXCEPT !.apiKey = k, !.pollIntervalType = t[1], !.pollIntervalSeconds = t[2]] :
        c \in Configs, k \in ApiKeys, t \in PollIntervals}

\* new ArcticSpasPlatform(log, config, api); the client, if one is created,
\* is new SpaClient(apiKey, this.pollIntervalMs).
LaunchInit ==
    /\ config \in LaunchConfigs
    /\ platform = Construct(config)
    /\ setup = 0
    /\ accessories = <<>>
    /\ handlers = <<>>
    /\ payloads = <<>>
    /\ minIntervalMs = IF platform.client THEN platform.pollIntervalMs ELSE 0
    /\ timeoutMs = DefaultTimeoutMs
    /\ now = 0
    /\ lastStatus = Null
    /\ lastFetchTime = 0
    /\ inFlight = 0
    /\ reqs = <<>>
    /\ nGets = 0
    /\ calls = <<>>
    /\ nCalls = 0
    /\ lastGood = Null
    /\ writes = <<>>

\* configureAccessory: the accessory is kept for getOrCreateAccessory.
configureAccessory ==
    /\ ~platform.launched
    /\ platform.restored < MaxRestored
    /\ platform' = [platform EXCEPT !.restored = @ + 1]
    /\ UNCHANGED <<minIntervalMs, timeoutMs, now, lastStatus, lastFetchTime, inFlight,
                   reqs, nGets, calls, nCalls, lastGood, writes,
                   config, setup, accessories, handlers, payloads>>

\* The host emits didFinishLaunching, once.  The handler, if the
\* constructor registered it, calls setupAccessories, which returns at once
\* when there is no client.
didFinishLaunching ==
    /\ ~platform.launched
    /\ platform' = [platform EXCEPT !.launched = TRUE]
    /\ setup' = IF platform.listening /\ platform.client THEN 1 ELSE setup
    /\ UNCHANGED <<minIntervalMs, timeoutMs, now, lastStatus, lastFetchTime, inFlight,
                   reqs, nGets, calls, nCalls, lastGood, writes,
                   config, accessories, handlers, payloads>>

LaunchNext ==
    \/ configureAccessory
    \/ didFinishLaunching
    \/ NewAccessory
    \/ \E w \in HostIds, v \in ActiveValues : setPumpActive(w, v)
    \/ \E w \in HostIds : WriteReturn(w)
    \/ \E w \in HostIds : HostAnswered(w)
    \/ \E r \in DOMAIN reqs, snapshot \in Snapshots : StatusBody(r, snapshot)
    \/ Transport
    \/ HostClock

LaunchSpec == LaunchInit /\ [][LaunchNext]_vars

(***************************************************************************)
(* The health indicator of the pH and ORP accessories.  A status text is   *)
(* a string or undefined; a string is modelled by its characters.          *)
(***************************************************************************)
NO_FAULT == 0
GENERAL_FAULT == 1

Undefined == [type |-> "undefined", chars |-> <<>>]
String(cs) == [type |-> "string", chars |-> cs]

\* String.prototype.toLowerCase, on the letters that occur.
LowerChar(c) ==
    CASE c = "H" -> "h"
      [] c = "K" -> "k"
      [] c = "L" -> "l"
      [] c = "O" -> "o"
      [] OTHER -> c

toLowerCase(cs) == [i \in 1..Len(cs) |-> LowerChar(cs[i])]

\* String.prototype.includes, String.prototype.endsWith
includes(cs, sub) ==
    \E i \in 1..(Len(cs) - Len(sub) + 1) : SubSeq(cs, i, i + Len(sub) - 1) = sub

endsWith(cs, sub) ==
    /\ Len(cs) >= Len(sub)
    /\ SubSeq(cs, Len(cs) - Len(sub) + 1, Len(cs)) = sub

LowOk == <<"l", "o", "w", "-", "o", "k">>
OkHigh == <<"o", "k", "-", "h", "i", "g", "h">>

\* Mutant: the text that ends with ok is green, whatever it contains.
mapPhStatusGreenFirst(status) ==
    IF status.type = "undefined" \/ status.chars = <<>> THEN "red"
    ELSE IF endsWith(toLowerCase(status.chars), <<"o", "k">>) THEN "green"
    ELSE IF \/ includes(toLowerCase(status.chars), LowOk)
            \/ includes(toLowerCase(status.chars), OkHigh) THEN "yellow"
    ELSE "red"

mapPhStatusToSeverity(status) ==
    IF status.type = "undefined" \/ status.chars = <<>> THEN "red"
    ELSE IF \/ includes(toLowerCase(status.chars), LowOk)
            \/ includes(toLowerCase(status.chars), OkHigh) THEN "yellow"
    ELSE IF endsWith(toLowerCase(status.chars), <<"o", "k">>) THEN "green"
    ELSE "red"

mapOrpStatusToSeverity(status) ==
    IF status.type = "undefined" \/ status.chars = <<>> THEN "red"
    ELSE IF \/ includes(toLowerCase(status.chars), LowOk)
            \/ includes(toLowerCase(status.chars), OkHigh) THEN "yellow"
    ELSE IF endsWith(toLowerCase(status.chars), <<"o", "k">>) THEN "green"
    ELSE "red"

\* The status texts explored: undefined, and the strings made of at most
\* MaxPieces of these pieces.
Pieces ==
    {<<"p", "H", " ">>, <<"L", "o", "w">>, <<"H", "i", "g", "h">>, <<"O", "K">>,
     <<"o", "k">>, <<"-">>, <<" ">>}

RECURSIVE Texts(_)
Texts(n) ==
    IF n = 0 THEN {<<>>}
    ELSE Texts(n - 1) \cup {t \o piece : t \in Texts(n - 1), piece \in Pieces}

StatusTexts == {Undefined} \cup {String(cs) : cs \in Texts(MaxPieces)}

\* The accessory with a health indicator that the configuration enables,
\* and the field of the status that holds its status text.
HealthAccessory == IF config.enablePh THEN "ph" ELSE "orp"
StatusKey(a) == IF a = "ph" THEN "ph_status" ELSE "orp_status"

\* The accessory has polled nothing yet.
NewHealthObject == [polled |-> FALSE, severity |-> "none", StatusFault |-> NO_FAULT]

\* The pH or ORP accessory awaits its first poll; the status that the
\* client is about to hand it has the status text that payloads holds.
HealthInit ==
    /\ config \in Configs
    /\ platform = [Construct(config) EXCEPT !.launched = TRUE]
    /\ setup = Len(AccessoryOrder) + 1
    /\ accessories = With(<<>>, HealthAccessory, NewHealthObject)
    /\ handlers = <<>>
    /\ \E text \in StatusTexts :
          payloads = <<With(<<>>, StatusKey(HealthAccessory), text)>>
    /\ minIntervalMs = platform.pollIntervalMs
    /\ timeoutMs = DefaultTimeoutMs
    /\ now = 0
    /\ lastStatus = Null
    /\ lastFetchTime = 0
    /\ inFlight = 0
    /\ reqs = <<>>
    /\ nGets = 0
    /\ calls = <<>>
    /\ nCalls = 0
    /\ lastGood = Null
    /\ writes = <<>>

\* pollStatus of the pH and of the ORP accessory after the await: the
\* severity goes into the name of the tile, the fault into StatusFault.
HealthPushes(a, status) ==
    [polled |-> TRUE,
     severity |-> IF a = "ph" THEN mapPhStatusToSeverity(status[StatusKey(a)])
                  ELSE mapOrpStatusToSeverity(status[StatusKey(a)]),
     StatusFault |-> IF (IF a = "ph" THEN mapPhStatusToSeverity(status[StatusKey(a)])
                         ELSE mapOrpStatusToSeverity(status[StatusKey(a)])) = "red"
                     THEN GENERAL_FAULT ELSE NO_FAULT]

HealthPolled(a) ==
    /\ a \in DOMAIN accessories
    /\ ~accessories[a].polled
    /\ accessories' = [accessories EXCEPT ![a] = HealthPushes(a, payloads[1])]
    /\ UNCHANGED <<minIntervalMs, timeoutMs, now, lastStatus, lastFetchTime, inFlight,
                   reqs, nGets, calls, nCalls, lastGood, writes,
                   config, platform, setup, handlers, payloads>>

HealthNext == \E a \in {"ph", "orp"} : HealthPolled(a)

HealthSpec == HealthInit /\ [][HealthNext]_vars

\* The event loop runs a timer that is due, and time passes.
Fairness ==
    /\ WF_vars(Tick)
    /\ WF_vars(\E r \in DOMAIN reqs : TimerFire(r))
    /\ WF_vars(\E c \in 1..Len(calls) : Deliver(c))

FairSpec == ReadSpec /\ Fairness

(***************************************************************************)
(* Vocabulary of the properties.                                           *)
(***************************************************************************)

\* A step in which getStatus is called, and the call it adds.
CallStep == nCalls' = nCalls + 1
NewCall == Last(calls')

\* The GET /status requests that a step puts on the wire.
NewGets ==
    {r \in DOMAIN reqs' \ DOMAIN reqs :
        reqs'[r].method = "GET" /\ reqs'[r].path = "/status"}

\* The calls that awaited a fetch and whose continuation has run.
Delivered == {c \in 1..Len(calls) : calls[c].how # "cache" /\ calls[c].st # "pending"}

\* Freshness as the specification states it: a cached value exists and its
\* age is below the minimum interval.  A cached value exists when lastStatus
\* holds a status; null and the empty results that a successful transport
\* call can leave there (undefined after a 204, '' after an empty text body)
\* are no value.
CachedValueExists == lastStatus.kind \in {"obj", "text"}
CacheFresh == CachedValueExists /\ now - lastFetchTime < minIntervalMs

\* The states of the coalescer.
Fetching == inFlight # 0
IdleFresh == inFlight = 0 /\ CacheFresh
IdleStale == inFlight = 0 /\ ~CacheFresh

(***************************************************************************)
(* C1.  In every reachable state, whatever the interleaving of getStatus   *)
(* calls, write calls and settlements, at most one GET /status started by  *)
(* getStatus is outstanding.                                               *)
(***************************************************************************)
C1_AtMostOneGet == Cardinality(PendingGets) <= 1

\* A GET is outstanding, a second caller has joined it and a write is
\* outstanding at the same time.
C1_Witness ==
    /\ Cardinality(PendingGets) = 1
    /\ \E w \in PutIds : Unsettled(w)
    /\ \E c \in 1..Len(calls) : calls[c].how = "join" /\ calls[c].st = "pending"

(***************************************************************************)
(* C2.  The getStatus calls made while a GET /status is pending issue no   *)
(* request of their own and await that one fetch, so one GET serves them   *)
(* all; and all calls that awaited the same fetch settle with the same     *)
(* outcome, which is the outcome of that fetch: the same value, or the     *)
(* same error.                                                             *)
(***************************************************************************)
C2_JoinsPending ==
    (CallStep /\ PendingGets # {}) =>
        /\ NewGets = {}
        /\ nGets' = nGets
        /\ NewCall.how = "join"
        /\ NewCall.fetch \in PendingGets

C2_SameOutcome ==
    /\ \A c \in Delivered :
          /\ calls[c].fetch \in GetIds
          /\ calls[c].st = Outcome(calls[c].fetch).st
          /\ calls[c].val = Outcome(calls[c].fetch).val
    /\ \A c, d \in Delivered :
          calls[c].fetch = calls[d].fetch =>
              calls[c].st = calls[d].st /\ calls[c].val = calls[d].val

C2_Coalescing == [][C2_JoinsPending]_vars /\ []C2_SameOutcome

\* Three calls shared one fetch (the one that started it and two that
\* joined it) and all three were rejected with its error.
C2_Witness ==
    /\ Len(calls) = 3
    /\ Delivered = {1, 2, 3}
    /\ calls[1].how = "fetch" /\ calls[2].how = "join" /\ calls[3].how = "join"
    /\ \A c \in Delivered : calls[c].fetch = 1 /\ calls[c].st = "err"
    /\ nGets = 1

(***************************************************************************)
(* C3.  The in-flight marker is set exactly while a GET /status started by *)
(* getStatus is unsettled: it designates the fetch from the step that      *)
(* starts it, it is cleared in the step in which that fetch settles,       *)
(* whatever the outcome (success, API error, parse error, abort), and it   *)
(* changes in no other step.                                               *)
(***************************************************************************)
C3_SetWhileUnsettled ==
    /\ inFlight # 0 => inFlight \in PendingGets
    /\ \A r \in PendingGets : inFlight = r

C3_ClearedAtSettlement ==
    /\ (inFlight # 0 /\ inFlight' # inFlight) =>
          /\ inFlight' = 0
          /\ Unsettled(inFlight)
          /\ reqs'[inFlight].phase = "done"
    /\ (inFlight = 0 /\ inFlight' # 0) =>
          /\ CallStep
          /\ NewGets = {inFlight'}

C3_Marker == []C3_SetWhileUnsettled /\ [][C3_ClearedAtSettlement]_vars

\* A fetch ended in a parse error and the marker is clear.
C3_Witness ==
    /\ inFlight = 0
    /\ \E r \in GetIds : ~Unsettled(r) /\ reqs[r].res = Err("parse")

(***************************************************************************)
(* C4.  When the continuation of a waiter runs, the marker no longer       *)
(* designates the fetch it awaited; a getStatus call made from there with  *)
(* the cache absent or stale awaits a fetch that is unsettled, and starts  *)
(* a new GET unless one has been started since the settlement: it never    *)
(* joins the settled fetch.                                                *)
(***************************************************************************)
Settled == {r \in GetIds : ~Unsettled(r)}

C4_ClearedBeforeWaiters == \A r \in Settled : inFlight # r

C4_FreshFetchAfterSettlement ==
    (CallStep /\ Settled # {} /\ ~CacheFresh) =>
        /\ NewCall.how # "cache"
        /\ NewCall.fetch \notin Settled
        /\ NewCall.fetch \in DOMAIN reqs' /\ reqs'[NewCall.fetch].phase # "done"
        /\ PendingGets = {} => (NewCall.how = "fetch" /\ NewGets = {NewCall.fetch})

C4_MarkerClearedFirst ==
    []C4_ClearedBeforeWaiters /\ [][C4_FreshFetchAfterSettlement]_vars

\* Two callers awaited the first fetch, which failed.  The continuation of
\* the first called getStatus again and started the second GET; then the
\* continuation of the second ran.
C4_Witness ==
    /\ Len(calls) = 2
    /\ calls[1].how = "join" /\ calls[1].st = "err" /\ calls[1].fetch = 1
    /\ calls[2].how = "fetch" /\ calls[2].st = "pending" /\ calls[2].fetch = 2
    /\ 1 \in Settled /\ 2 \in PendingGets /\ inFlight = 2

(***************************************************************************)
(* C5.  Every fetch started by getStatus eventually settles (by a          *)
(* response, an error or the abort that its timer triggers), and whenever  *)
(* the client is in Fetching it eventually leaves it, so that a later call *)
(* can start a new fetch.  Checked under FairSpec: timers that are due     *)
(* fire, pending continuations run and time passes.                        *)
(***************************************************************************)
C5_EventuallySettles ==
    /\ \A k \in 1..MaxReads : (k \in PendingGets) ~> (k \in Settled)
    /\ Fetching ~> ~Fetching

\* The first fetch was aborted by its timer; after that a call started the
\* second GET.
C5_Witness ==
    /\ Len(calls) = 2
    /\ calls[1].fetch = 1 /\ calls[1].st = "err" /\ calls[1].val.kind = "abort"
    /\ calls[2].how = "fetch" /\ calls[2].fetch = 2
    /\ 2 \in PendingGets

(***************************************************************************)
(* C6.  A getStatus call issues a GET /status if and only if no fetch is   *)
(* in flight and the cache is not fresh, and then it issues exactly one;   *)
(* fresh means that a cached value exists and now - lastFetchTime is       *)
(* strictly below minIntervalMs.                                           *)
(***************************************************************************)
C6_FetchStep ==
    CallStep =>
        IF inFlight = 0 /\ ~CacheFresh
        THEN Cardinality(NewGets) = 1 /\ NewGets = DOMAIN reqs' \ DOMAIN reqs
        ELSE DOMAIN reqs' \subseteq DOMAIN reqs

C6_FetchIffIdleStale == [][C6_FetchStep]_vars

\* A call made when the cached value was exactly minIntervalMs old has just
\* started a GET.
C6_Witness ==
    /\ minIntervalMs > 0
    /\ CachedValueExists
    /\ now - lastFetchTime = minIntervalMs
    /\ \E r \in PendingGets :
          /\ inFlight = r
          /\ reqs[r].phase = "fetch"
          /\ reqs[r].deadline = now + timeoutMs

(***************************************************************************)
(* C7.  A getStatus call made in Idle-Fresh resolves to the cached value,  *)
(* which is the payload of the latest fetch that succeeded; it issues no   *)
(* request and leaves lastStatus, lastFetchTime and the marker as they     *)
(* are.                                                                    *)
(***************************************************************************)
C7_CacheStep ==
    (CallStep /\ IdleFresh) =>
        /\ DOMAIN reqs' \subseteq DOMAIN reqs
        /\ nGets' = nGets
        /\ UNCHANGED <<lastStatus, lastFetchTime, inFlight>>
        /\ NewCall.how = "cache"
        /\ NewCall.st = "ok"
        /\ NewCall.val = lastStatus
        /\ NewCall.val = lastGood

C7_ServedFromCache == [][C7_CacheStep]_vars

\* Two fetches succeeded and the third call was answered with the payload
\* of the second.
C7_Witness ==
    /\ nCalls = 3 /\ nGets = 2
    /\ Last(calls).how = "cache"
    /\ Last(calls).val.from = 2
    /\ inFlight = 0

(***************************************************************************)
(* C9.  With minIntervalMs = 0 no getStatus call is answered from the      *)
(* cache: every call made while no fetch is in flight issues a new GET.    *)
(***************************************************************************)
C9_NeverCached ==
    minIntervalMs = 0 => \A c \in 1..Len(calls) : calls[c].how # "cache"

C9_FetchStep ==
    (CallStep /\ minIntervalMs = 0 /\ PendingGets = {}) =>
        /\ Cardinality(NewGets) = 1
        /\ NewCall.how = "fetch"

C9_ZeroInterval == []C9_NeverCached /\ [][C9_FetchStep]_vars

\* With minIntervalMs = 0 a fetch succeeded and a call made in the same
\* millisecond started the second GET.
C9_Witness ==
    /\ minIntervalMs = 0
    /\ CachedValueExists /\ lastStatus.from = 1
    /\ lastFetchTime = now
    /\ nGets = 2 /\ 2 \in PendingGets

(***************************************************************************)
(* C10.  lastStatus and lastFetchTime change only in the step in which a   *)
(* fetch settles successfully, and that step sets both: lastStatus to the  *)
(* payload of the fetch and lastFetchTime to the time of the settlement.   *)
(***************************************************************************)
SucceedsNow(r) ==
    /\ r \in PendingGets
    /\ r \in DOMAIN reqs'
    /\ reqs'[r].phase = "done"
    /\ reqs'[r].res.st = "ok"

C10_UpdateStep ==
    /\ (lastStatus' # lastStatus \/ lastFetchTime' # lastFetchTime) =>
          \E r \in DOMAIN reqs : SucceedsNow(r)
    /\ \A r \in DOMAIN reqs : SucceedsNow(r) =>
          /\ lastStatus' = [kind |-> reqs'[r].res.kind, from |-> r]
          /\ lastFetchTime' = now'

C10_UpdatedTogether == [][C10_UpdateStep]_vars

\* The second fetch succeeded one second after the first: the cache holds
\* its payload and its time.
C10_Witness ==
    /\ lastStatus.from = 2
    /\ lastFetchTime = 1000
    /\ inFlight = 0

(***************************************************************************)
(* C8.  Freshness window, minIntervalMs = 5000, calls at t = 0, 1000 and   *)
(* 6000 (WindowSpec).  The window is counted from the settlement of the    *)
(* fetch, not from the call that started it:                               *)
(*   - the call at t = 0 issues a GET;                                     *)
(*   - the call at t = 1000 issues no GET when the first fetch is pending  *)
(*     (it joins it) or has stored a status (it is answered from the       *)
(*     cache);                                                             *)
(*   - when the first fetch has stored a status, the call at t = 6000      *)
(*     issues a new GET if that fetch settled by t = 1000, and is answered *)
(*     from the cache if it settled later.                                 *)
(***************************************************************************)
FirstStored == Truthy(lastStatus) /\ lastStatus.from = 1

C8_FirstCall == nCalls = 0 => Cardinality(NewGets) = 1 /\ NewCall.how = "fetch"

C8_SecondCall ==
    nCalls = 1 =>
        /\ FirstStored =>
              /\ NewGets = {}
              /\ NewCall.how = "cache"
              /\ NewCall.val = lastStatus
        /\ 1 \in PendingGets =>
              /\ NewGets = {}
              /\ NewCall.how = "join"
              /\ NewCall.fetch = 1

C8_ThirdCall ==
    (nCalls = 2 /\ FirstStored) =>
        /\ calls[2].how = "cache" => lastFetchTime <= 1000
        /\ IF lastFetchTime <= 1000
           THEN Cardinality(NewGets) = 1 /\ NewCall.how = "fetch"
           ELSE NewGets = {} /\ NewCall.how = "cache" /\ NewCall.val = lastStatus

C8_WindowStep == CallStep => C8_FirstCall /\ C8_SecondCall /\ C8_ThirdCall

C8_WindowFromSettlement == [][C8_WindowStep]_vars

\* The first fetch stored a status at t = 1000, the call at t = 1000 was
\* answered from the cache and the call at t = 6000 has started the second
\* GET: the value is exactly 5000 ms old.
C8_Witness ==
    /\ nCalls = 3 /\ now = 6000
    /\ FirstStored /\ lastFetchTime = 1000
    /\ calls[2].how = "cache"
    /\ calls[3].how = "fetch" /\ calls[3].fetch = 2
    /\ 2 \in PendingGets

\* The property as the specification words it: whenever the first fetch stores its status, up to
\* the request timeout, the call at t = 1000 issues no GET and the call at
\* t = 6000 issues one.
C8_AsStatedStep ==
    CallStep =>
        /\ C8_FirstCall
        /\ (nCalls = 1 /\ (FirstStored \/ 1 \in PendingGets)) => NewGets = {}
        /\ (nCalls = 2 /\ FirstStored /\ lastFetchTime <= timeoutMs) =>
              Cardinality(NewGets) = 1 /\ NewCall.how = "fetch"

C8_AsStated == [][C8_AsStatedStep]_vars

(***************************************************************************)
(* C11.  After a fetch has settled successfully, with minIntervalMs > 0,   *)
(* a getStatus call made before minIntervalMs has elapsed since that       *)
(* settlement is answered from the cache, with the payload of that fetch   *)
(* and with no new GET, whatever the payload is: a parsed object, the      *)
(* empty result of a 204, raw text.                                        *)
(***************************************************************************)
SomeFetchSucceeded == lastGood # Null

C11_FreshStep ==
    (CallStep /\ minIntervalMs > 0 /\ SomeFetchSucceeded
              /\ now - lastFetchTime < minIntervalMs) =>
        /\ NewGets = {}
        /\ NewCall.how = "cache"
        /\ NewCall.val = lastGood

C11_FreshAfterSuccess == [][C11_FreshStep]_vars

(***************************************************************************)
(* C12.  A fetch that settles with failure leaves lastStatus and           *)
(* lastFetchTime exactly as they were before it started: they do not       *)
(* change in the step that starts the fetch, nor while it is in flight,    *)
(* nor in the step in which it fails; a stale cached value is not evicted. *)
(* After the failure the client is in Idle-Stale.                          *)
(***************************************************************************)
FailsNow(r) ==
    /\ r \in PendingGets
    /\ r \in DOMAIN reqs'
    /\ reqs'[r].phase = "done"
    /\ reqs'[r].res.st = "err"

C12_FailureStep ==
    /\ (inFlight = 0 /\ inFlight' # 0) => UNCHANGED <<lastStatus, lastFetchTime>>
    /\ (inFlight # 0 /\ inFlight' = inFlight) => UNCHANGED <<lastStatus, lastFetchTime>>
    /\ \A r \in DOMAIN reqs : FailsNow(r) =>
          /\ UNCHANGED <<lastStatus, lastFetchTime>>
          /\ inFlight = r
          /\ inFlight' = 0
          /\ ~(CachedValueExists' /\ now' - lastFetchTime' < minIntervalMs')

C12_FailureKeepsCache == [][C12_FailureStep]_vars

\* A status is cached, the fetch that was to refresh it has failed, and the
\* status and its time are still those of the earlier fetch.
C12_Witness ==
    /\ minIntervalMs > 0
    /\ inFlight = 0
    /\ CachedValueExists /\ lastStatus.from = 1
    /\ lastFetchTime = 0 /\ now = 1000
    /\ 2 \in Settled /\ reqs[2].res.st = "err"
    /\ IdleStale

(***************************************************************************)
(* C13.  Every value that a getStatus call resolves with is the payload of *)
(* a GET /status that settled successfully: of the fetch that the call     *)
(* started or joined, or, for a call answered from the cache, of the       *)
(* latest successful fetch.  What a failed fetch threw is never returned   *)
(* as a status and never stored, and the first call after a failed fetch   *)
(* starts a new fetch.                                                     *)
(***************************************************************************)
OkKinds == {"obj", "text", "empty", "undef"}

C13_ResolvedWithPayload ==
    /\ \A c \in 1..Len(calls) : calls[c].st = "ok" =>
          /\ calls[c].val.kind \in OkKinds
          /\ calls[c].how # "cache" =>
                /\ calls[c].fetch \in Settled
                /\ reqs[calls[c].fetch].res.st = "ok"
                /\ calls[c].val = [kind |-> reqs[calls[c].fetch].res.kind,
                                   from |-> calls[c].fetch]
    /\ lastStatus = lastGood
    /\ lastStatus.kind \in OkKinds \cup {"null"}

LastFetchFailed ==
    /\ nGets \in DOMAIN reqs
    /\ reqs[nGets].phase = "done"
    /\ reqs[nGets].res.st = "err"

C13_CallStep ==
    CallStep =>
        /\ NewCall.how = "cache" => NewCall.val = lastGood /\ SomeFetchSucceeded
        /\ LastFetchFailed =>
              /\ NewCall.how = "fetch"
              /\ NewGets = {NewCall.fetch}
              /\ NewCall.fetch \notin DOMAIN reqs

C13_OnlyPayloads == []C13_ResolvedWithPayload /\ [][C13_CallStep]_vars

\* The first fetch succeeded, the second failed, and the call after that
\* has started the third; the cache still holds the payload of the first.
C13_Witness ==
    /\ CachedValueExists /\ lastStatus.from = 1
    /\ nGets = 3
    /\ inFlight = 3 /\ 3 \in PendingGets
    /\ Last(calls).how = "fetch"

(***************************************************************************)
(* C14.  When the fetch in flight fails, every caller that waits on it is  *)
(* rejected with that very failure: the same error of the same request,    *)
(* not translated, wrapped or suppressed.  None of them resolves with a    *)
(* value, in particular not with the stale cached status.                  *)
(***************************************************************************)
WaitedOn(r) == {c \in 1..Len(calls) : calls[c].how # "cache" /\ calls[c].fetch = r}

C14_FailureToEveryWaiter ==
    \A r \in Settled : reqs[r].res.st = "err" =>
        \A c \in WaitedOn(r) :
            \/ calls[c].st = "pending"
            \/ /\ calls[c].st = "err"
               /\ calls[c].val.kind = reqs[r].res.kind
               /\ calls[c].val.from = r

\* A waiter is only ever rejected with the failure of its own fetch.
C14_DeliverStep ==
    \A c \in 1..Len(calls) :
        (c <= Len(calls') /\ calls[c].st = "pending" /\ calls'[c].st # "pending"
            /\ calls'[c].fetch = calls[c].fetch /\ calls[c].fetch \in DOMAIN reqs
            /\ reqs[calls[c].fetch].res.st = "err") =>
                /\ calls'[c].st = "err"
                /\ calls'[c].val # lastStatus

C14_FailurePropagates == []C14_FailureToEveryWaiter /\ [][C14_DeliverStep]_vars

\* A status is cached; the fetch that was to refresh it failed with a
\* network error, and both callers that waited on it got that error.
C14_Witness ==
    /\ CachedValueExists /\ lastStatus.from = 1
    /\ 2 \in Settled /\ reqs[2].res = Err("network")
    /\ Cardinality(WaitedOn(2)) = 2
    /\ \A c \in WaitedOn(2) : calls[c].st = "err" /\ calls[c].val.kind = "network"

(***************************************************************************)
(* C15.  No automatic retry.  A request is sent only by the call that      *)
(* asks for it: a GET /status by a getStatus call made while no fetch is   *)
(* in flight, a PUT by a write call; one call sends one request.  A        *)
(* request that is outstanding is not sent again, and the step in which a  *)
(* request settles, with a failure or a timeout as with a success, sends   *)
(* nothing.                                                                *)
(***************************************************************************)
Issued ==
    {r \in DOMAIN reqs' :
        /\ reqs'[r].phase = "fetch"
        /\ r \in DOMAIN reqs => reqs[r].phase = "done"}

SettlesNow(r) == Unsettled(r) /\ r \in DOMAIN reqs' /\ reqs'[r].phase = "done"

SameRequest(r) ==
    /\ reqs'[r].method = reqs[r].method
    /\ reqs'[r].path = reqs[r].path
    /\ reqs'[r].body = reqs[r].body
    /\ reqs'[r].phase # "done" => reqs'[r].deadline = reqs[r].deadline

C15_SendStep ==
    /\ Cardinality(Issued) <= 1
    /\ \A r \in Issued :
          IF reqs'[r].method = "GET"
          THEN CallStep /\ inFlight = 0 /\ nGets' = nGets + 1 /\ r = nGets'
          ELSE r \notin DOMAIN writes /\ r \in DOMAIN writes' /\ ~CallStep
    /\ nGets' # nGets => CallStep /\ Issued # {}
    /\ \A r \in DOMAIN reqs : Unsettled(r) => r \in DOMAIN reqs' /\ SameRequest(r)
    /\ (\E r \in DOMAIN reqs : SettlesNow(r)) => Issued = {}
    /\ \A w \in DOMAIN writes : w \in DOMAIN writes' => writes'[w] = writes[w]

C15_NoRetry == [][C15_SendStep]_vars

\* A fetch has timed out and a write has failed; nothing is outstanding and
\* one GET has been sent in all.
C15_Witness ==
    /\ nGets = 1
    /\ 1 \in Settled /\ reqs[1].res = Aborted(Err("abort"))
    /\ inFlight = 0
    /\ \E w \in Returnable : reqs[w].res.st = "err"
    /\ \A r \in DOMAIN reqs : ~Unsettled(r)

(***************************************************************************)
(* C16.  No step of a write operation (the call that sends the PUT, the    *)
(* progress of the PUT, its settlement with success or failure, the        *)
(* return to the caller) changes lastStatus, lastFetchTime or the          *)
(* in-flight marker, issues a GET /status or touches the fetch in flight.  *)
(***************************************************************************)
WriteTouched ==
    {w \in DOMAIN reqs \cup DOMAIN reqs' :
        \/ /\ w \in DOMAIN reqs'
           /\ reqs'[w].method = "PUT"
           /\ w \in DOMAIN reqs => reqs'[w] # reqs[w]
        \/ /\ w \in DOMAIN reqs
           /\ reqs[w].method = "PUT"
           /\ w \notin DOMAIN reqs'}

C16_WriteStep ==
    WriteTouched # {} =>
        /\ UNCHANGED <<lastStatus, lastFetchTime, inFlight, nGets, calls, nCalls>>
        /\ NewGets = {}
        /\ \A r \in GetIds : r \in DOMAIN reqs' /\ reqs'[r] = reqs[r]

C16_WritesLeaveCache == [][C16_WriteStep]_vars

\* A status is cached and a fetch is in flight; a write made meanwhile has
\* failed, and cache and marker are as they were.
C16_Witness ==
    /\ CachedValueExists /\ lastStatus.from = 1
    /\ inFlight = 2 /\ 2 \in PendingGets
    /\ \E w \in Returnable : reqs[w].res.st = "err" /\ writes[w].op = "setPump"

(***************************************************************************)
(* C17.  A write call with arguments of the declared types sends exactly   *)
(* one PUT, with the path and the body of its operation:                   *)
(*   setTemperatureF(x)  /temperature  {setpointF: x}                      *)
(*   setLights(b)        /lights       {state}                             *)
(*   setPump(p, s)       /pumps/p      {state: s}                          *)
(*   setBlower(b, s)     /blowers/b    {state: s}                          *)
(*   setToggle(name, b)  /name         {state}                             *)
(*   boost()             /boost        no body                             *)
(* where a boolean gives state 'on' when true and 'off' when false.        *)
(* Writes are not coalesced: each call has a PUT of its own, also when     *)
(* the same PUT of another caller is outstanding.                          *)
(***************************************************************************)
InDomain(call) ==
    CASE call.op = "setPump" ->
            call.sel \in PumpDomain /\ call.setting \in PumpStateDomain
      [] call.op = "setBlower" ->
            call.sel \in BlowerDomain /\ call.setting \in OnOffDomain
      [] call.op = "setToggle" -> call.sel \in ToggleDomain
      [] OTHER -> TRUE

OnOrOff(b) == IF b THEN "on" ELSE "off"

RightPath(call, path) ==
    CASE call.op = "setTemperatureF" -> path = "/temperature"
      [] call.op = "setLights" -> path = "/lights"
      [] call.op = "setPump" -> path = "/pumps/" \o call.sel
      [] call.op = "setBlower" -> path = "/blowers/" \o call.sel
      [] call.op = "setToggle" -> path = "/" \o call.sel
      [] call.op = "boost" -> path = "/boost"

RightBody(call, body) ==
    CASE call.op = "setTemperatureF" ->
            body.key = "setpointF" /\ body.num = call.amount
      [] call.op \in {"setLights", "setToggle"} ->
            body.key = "state" /\ body.str = OnOrOff(call.flag)
      [] call.op \in {"setPump", "setBlower"} ->
            body.key = "state" /\ body.str = call.setting
      [] call.op = "boost" -> body.key = "none"

WriteCalled == {w \in DOMAIN writes' : w \notin DOMAIN writes}

C17_WriteStep ==
    \A w \in WriteCalled : InDomain(writes'[w]) =>
        /\ Issued = {w}
        /\ reqs'[w].method = "PUT"
        /\ RightPath(writes'[w], reqs'[w].path)
        /\ RightBody(writes'[w], reqs'[w].body)
        /\ \A r \in DOMAIN reqs : r \in DOMAIN reqs' /\ reqs'[r] = reqs[r]

\* Every write call under way has its request, and the request is the one
\* the call sent.
C17_OnePutEach ==
    \A w \in DOMAIN writes : InDomain(writes[w]) =>
        /\ w \in PutIds
        /\ RightPath(writes[w], reqs[w].path)
        /\ RightBody(writes[w], reqs[w].body)

C17_WritesSendOnePut == []C17_OnePutEach /\ [][C17_WriteStep]_vars

\* Two callers have called setPump('1', 'low'): two PUT /pumps/1 with body
\* {state: 'low'} are outstanding.
C17_Witness ==
    /\ DOMAIN writes = {-1, -2}
    /\ \A w \in DOMAIN writes :
          /\ writes[w].op = "setPump" /\ writes[w].sel = "1" /\ writes[w].setting = "low"
          /\ w \in PutIds /\ Unsettled(w)
          /\ reqs[w].path = "/pumps/1"
          /\ reqs[w].body = [key |-> "state", str |-> "low", num |-> 0]

(***************************************************************************)
(* C18.  A write whose argument is outside the domain of its parameter     *)
(* (pump selector, pump state, blower selector, blower state, toggle name) *)
(* is rejected at the client boundary: no PUT is sent for it.              *)
(***************************************************************************)
C18_RejectedAtBoundary ==
    \A w \in DOMAIN writes : ~InDomain(writes[w]) => w \notin DOMAIN reqs

(***************************************************************************)
(* C19.  A request whose timer fires, the complete response not having     *)
(* arrived within timeoutMs, fails with the timeout failure (the abort),   *)
(* which is not an API error; it never resolves successfully.  This holds  *)
(* in whichever phase the timer fires: while fetch() is pending and while  *)
(* the response body is being read.                                        *)
(***************************************************************************)
TimedOut == {r \in DOMAIN reqs : reqs[r].phase = "done" /\ reqs[r].res.aborted}

C19_TimeoutAlwaysFails ==
    \A r \in TimedOut : reqs[r].res.st = "err" /\ reqs[r].res.kind = "abort"

(***************************************************************************)
(* C20.  A request whose response has a non-success HTTP status fails with *)
(* the API error (the error that carries status code and status text),     *)
(* whatever the content type of the response and however the read of the   *)
(* response body ends: with text, empty, with a failure or with the abort  *)
(* of the timer.  When the timer has fired, the error carries no body      *)
(* text.                                                                   *)
(***************************************************************************)
NonSuccess(r) == reqs[r].status # 0 /\ ~(reqs[r].status >= 200 /\ reqs[r].status <= 299)

ApiErrors == {"api", "apiText"}

C20_ErrorResponsePending ==
    \A r \in DOMAIN reqs : NonSuccess(r) => reqs[r].phase = "errText"

C20_SettleStep ==
    \A r \in DOMAIN reqs : (NonSuccess(r) /\ r \in DOMAIN reqs' /\ reqs'[r] # reqs[r]) =>
        /\ reqs'[r].phase = "done"
        /\ reqs'[r].res.st = "err"
        /\ reqs'[r].res.kind \in ApiErrors
        /\ reqs'[r].res.aborted => reqs'[r].res.kind = "api"

C20_NonSuccessIsApiError == []C20_ErrorResponsePending /\ [][C20_SettleStep]_vars

\* A GET /status and a PUT were both answered with a non-success status:
\* the GET has failed with the API error without body text, the PUT with
\* the API error with body text.
C20_Witness ==
    /\ 1 \in Settled /\ reqs[1].res = Err("api")
    /\ \E w \in Returnable : reqs[w].res = Err("apiText")

(***************************************************************************)
(* C21.  How the transport classifies a success response.  A response with *)
(* status 204 settles the request at once with the empty result: no body   *)
(* is read.  Any other success response whose content type is not JSON has *)
(* its body read as text, and that read cannot fail the request: it gives  *)
(* the raw text, or the empty text when the read fails.  Only a success    *)
(* response that is not a 204 and has a JSON content type is parsed as     *)
(* JSON.                                                                   *)
(***************************************************************************)
C21_HeadStep ==
    \A r \in DOMAIN reqs, head \in Heads :
        (ResponseHead(r, head) /\ ResOk(head)) =>
            /\ head.status = 204 =>
                  reqs'[r].phase = "done" /\ reqs'[r].res = Ok("undef")
            /\ (head.status # 204 /\ ~head.json) => reqs'[r].phase = "text"
            /\ reqs'[r].phase = "json" <=> (head.status # 204 /\ head.json)

C21_BodyStep ==
    \A r \in DOMAIN reqs :
        /\ (reqs[r].phase = "text" /\ r \in DOMAIN reqs' /\ reqs'[r] # reqs[r]) =>
              /\ reqs'[r].phase = "done"
              /\ reqs'[r].res.st = "ok"
              /\ reqs'[r].res.kind \in {"text", "empty"}
        /\ (r \in DOMAIN reqs' /\ reqs'[r].phase = "done" /\ Unsettled(r)
                /\ reqs'[r].res.kind \in {"obj", "parse"}) => reqs[r].phase = "json"

C22_MalformedRejected ==
    /\ \A c \in 1..Len(calls) : calls[c].st = "ok" => calls[c].val.kind # "text"
    /\ lastStatus.kind # "text"

(***************************************************************************)
(* Vocabulary of the accessory properties.                                 *)
(***************************************************************************)
\* The poll of accessory a completes in this step: its continuation runs.
PollCompletes(a) ==
    /\ a \in DOMAIN accessories
    /\ accessories[a].polling # 0
    /\ accessories'[a].polling = 0

\* The fetch that the pending poll of accessory a awaits.
Awaited(a) == calls[accessories[a].polling].fetch

\* The timer of accessory a ticks in this step.
TimerTicks(a) ==
    /\ a \in DOMAIN accessories
    /\ accessories'[a].due # accessories[a].due

(***************************************************************************)
(* C23.  When the poll of an accessory fails (getStatus rejects), the      *)
(* accessory changes neither its currentStatus nor any characteristic      *)
(* value it has pushed; the error stays inside the poll, and the interval  *)
(* timer of the accessory is left as it was, so that the accessory polls   *)
(* again when the timer is due.                                            *)
(***************************************************************************)
C23_FailedPollStep ==
    \A a \in DOMAIN accessories :
        (PollCompletes(a) /\ reqs[Awaited(a)].res.st = "err") =>
            /\ accessories'[a].currentStatus = accessories[a].currentStatus
            /\ accessories'[a].shown = accessories[a].shown
            /\ accessories'[a].due = accessories[a].due
            /\ accessories'[a].answeredBy = Awaited(a)
            /\ UNCHANGED <<lastStatus, handlers, setup>>

\* The timer that is due, and first in line, can tick whatever the earlier
\* polls came to.
C23_PollingContinues ==
    \A i \in DueTimers :
        (Quiescent /\ SetupDone /\ \A j \in DueTimers : i <= j) =>
            ENABLED PollTick(AccessoryOrder[i])

C23_FailedPollKeepsDisplay == [][C23_FailedPollStep]_vars /\ []C23_PollingContinues

\* The first poll of the pumps, lights and pH accessories succeeded; the
\* poll of their first timer tick has failed, and each still holds and
\* shows the status of the first fetch.  The timers are set for the next
\* tick.
C23_Witness ==
    /\ {"lights", "pumps", "ph"} \subseteq DOMAIN accessories
    /\ \A a \in {"lights", "pumps", "ph"} :
          /\ accessories[a].currentStatus = [kind |-> "obj", from |-> 1]
          /\ accessories[a].shown.pushedBy = 1
          /\ accessories[a].answeredBy = 2
          /\ accessories[a].polling = 0
          /\ accessories[a].due = 2 * minIntervalMs
    /\ 2 \in Settled /\ reqs[2].res.st = "err"

(***************************************************************************)
(* C24.  Every write handler of every accessory (target temperature,       *)
(* lights, pump active, pump speed, blower or toggle) that finds its       *)
(* client write rejected rejects in turn, with the error that the write    *)
(* was rejected with; a handler resolves only when its write resolved.     *)
(***************************************************************************)
\* The handler that awaits write w resumes in this step.
HandlerResumes(w) ==
    /\ w \in DOMAIN handlers
    /\ handlers[w].outcome = "awaiting"
    /\ w \in Returnable
    /\ w \notin DOMAIN reqs'

C24_HandlerStep ==
    \A w \in DOMAIN handlers :
        /\ HandlerResumes(w) =>
              /\ w \in DOMAIN handlers'
              /\ IF reqs[w].res.st = "err"
                 THEN /\ handlers'[w].outcome = "rejected"
                      /\ handlers'[w].thrown = reqs[w].res.kind
                 ELSE /\ handlers'[w].outcome = "resolved"
                      /\ handlers'[w].thrown = "none"
        /\ (w \in DOMAIN handlers' /\ handlers'[w].outcome # handlers[w].outcome) =>
              HandlerResumes(w)
        /\ (handlers[w].outcome = "awaiting" /\ ~HandlerResumes(w)) =>
              w \in DOMAIN handlers' /\ handlers'[w] = handlers[w]

\* A handler under way has its write under way.
C24_HandlerAwaitsWrite ==
    \A w \in DOMAIN handlers :
        handlers[w].outcome = "awaiting" => w \in PutIds /\ w \in DOMAIN writes

C24_WriteFailureSurfaces == [][C24_HandlerStep]_vars /\ []C24_HandlerAwaitsWrite

\* The handler of the switch was invoked, its write timed out, and the
\* handler has rejected with the abort error.
C24_Witness ==
    /\ -1 \in DOMAIN handlers
    /\ handlers[-1].handler = "setOn"
    /\ handlers[-1].outcome = "rejected"
    /\ handlers[-1].thrown = "abort"

(***************************************************************************)
(* C25.  When the client write of a handler fails, the accessory pushes    *)
(* no characteristic value and leaves its currentStatus alone: nothing is  *)
(* corrected optimistically.  What an accessory shows changes only where   *)
(* the code pushes: in the continuation of a poll that succeeded, which    *)
(* makes it show the polled status, and, for the pump, in the continuation *)
(* of a pump handler whose write succeeded.                                *)
(***************************************************************************)
C25_FailedWriteStep ==
    \A w \in DOMAIN handlers :
        (HandlerResumes(w) /\ reqs[w].res.st = "err") =>
            UNCHANGED <<accessories, lastStatus, lastFetchTime>>

PolledNow(a) ==
    /\ PollCompletes(a)
    /\ reqs[Awaited(a)].res.st = "ok"
    /\ accessories'[a].currentStatus = Outcome(Awaited(a)).val
    /\ accessories'[a].shown =
          IF PollThrows(a, Outcome(Awaited(a)).val) THEN accessories[a].shown
          ELSE PollPushes(a, accessories[a].shown, Outcome(Awaited(a)).val)

PumpWrittenNow(a) ==
    /\ a = "pumps"
    /\ \E w \in DOMAIN handlers :
          /\ HandlerResumes(w)
          /\ reqs[w].res.st = "ok"
          /\ handlers[w].handler \in {"setPumpActive", "setPumpSpeed"}

C25_DisplayStep ==
    \A a \in DOMAIN accessories :
        /\ accessories'[a].shown # accessories[a].shown =>
              PolledNow(a) \/ PumpWrittenNow(a)
        /\ accessories'[a].currentStatus # accessories[a].currentStatus => PolledNow(a)

SnappedSpeed(mode, speed) ==
    CASE mode = "three-state" /\ speed <= 0 -> 0
      [] mode = "three-state" /\ speed > 0 /\ speed <= 75 -> 50
      [] mode = "three-state" /\ speed > 75 -> 100
      [] mode = "two-state" /\ speed > 0 -> 100
      [] mode = "two-state" /\ speed <= 0 -> 0

SnappedState(mode, speed) ==
    CASE mode = "three-state" /\ speed <= 0 -> "off"
      [] mode = "three-state" /\ speed > 0 /\ speed <= 75 -> "low"
      [] mode = "three-state" /\ speed > 75 -> "high"
      [] mode = "two-state" /\ speed > 0 -> "on"
      [] mode = "two-state" /\ speed <= 0 -> "off"

SpeedHandlerInvoked(w) ==
    /\ w \in DOMAIN handlers'
    /\ handlers'[w].handler = "setPumpSpeed"
    /\ handlers'[w].outcome = "awaiting"
    /\ w \notin DOMAIN handlers

C26_SpeedStep ==
    \A w \in HostIds :
        /\ SpeedHandlerInvoked(w) =>
              /\ Issued = {w}
              /\ reqs'[w].method = "PUT"
              /\ reqs'[w].path = "/pumps/" \o PumpNumber(config.enabledPump)
              /\ reqs'[w].body =
                    StateBody(SnappedState(PumpMode, handlers'[w].value))
              /\ writes'[w].op = "setPump"
              /\ writes'[w].setting = SnappedState(PumpMode, handlers'[w].value)
        /\ (w \in DOMAIN handlers /\ HandlerResumes(w) /\ reqs[w].res.st = "ok"
                /\ handlers[w].handler = "setPumpSpeed") =>
              /\ accessories'["pumps"].shown.RotationSpeed =
                    SnappedSpeed(PumpMode, handlers[w].value)
              /\ accessories'["pumps"].shown.Active = INACTIVE <=>
                    SnappedState(PumpMode, handlers[w].value) = "off"
              /\ accessories'["pumps"].shown.pushedBy = w

C26_SpeedSnapped == [][C26_SpeedStep]_vars

\* The host asked the three-state pump for speed 75: 'low' was sent to
\* /pumps/1, the write succeeded, and the accessory shows 50 and ACTIVE.
C26_Witness ==
    /\ PumpMode = "three-state"
    /\ -1 \in DOMAIN handlers
    /\ handlers[-1].handler = "setPumpSpeed"
    /\ handlers[-1].value = 75
    /\ handlers[-1].outcome = "resolved"
    /\ accessories["pumps"].shown.pushedBy = -1
    /\ accessories["pumps"].shown.RotationSpeed = 50
    /\ accessories["pumps"].shown.Active = ACTIVE

(***************************************************************************)
(* C27.  The accessories that setupAccessories creates share one client.   *)
(* Their first polls, made in the one synchronous pass of the setup,       *)
(* produce exactly one GET /status, and each accessory gets from it what   *)
(* every other gets: the same status, or the same failure.                 *)
(***************************************************************************)
\* No interval timer has ticked yet: the polls so far are the first ones.
FirstPollsOnly ==
    \A a \in DOMAIN accessories : accessories[a].due = minIntervalMs

C27_OneGetForSetup ==
    (FirstPollsOnly /\ accessories # <<>>) =>
        /\ nGets = 1
        /\ GetIds = {1}
        /\ reqs[1].path = "/status"
        /\ \A a \in DOMAIN accessories :
              IF accessories[a].polling # 0
              THEN /\ Awaited(a) = 1
                   /\ accessories[a].currentStatus = Null
              ELSE /\ 1 \in Settled
                   /\ accessories[a].answeredBy = 1
                   /\ accessories[a].currentStatus =
                         IF reqs[1].res.st = "ok" THEN Outcome(1).val ELSE Null

\* During the setup nothing but the constructors runs.
C27_SetupStep == Building => (setup' = setup + 1 /\ now' = now /\ NewGets \subseteq {1})

C27_SetupSharesOneFetch == []C27_OneGetForSetup /\ [][C27_SetupStep]_vars

\* Four accessories were set up; one GET was sent and all four hold the
\* status it brought.
C27_Witness ==
    /\ SetupDone
    /\ FirstPollsOnly
    /\ Cardinality(DOMAIN accessories) = 4
    /\ nGets = 1
    /\ \A a \in DOMAIN accessories :
          accessories[a].currentStatus = [kind |-> "obj", from |-> 1]

(***************************************************************************)
(* C28.  The platform gives the client the poll period P of the            *)
(* accessories as minIntervalMs.  The rate limit never suppresses a        *)
(* regularly scheduled poll: every timer tick at which no fetch is in      *)
(* flight issues a new GET /status, and two consecutive timer ticks of     *)
(* one accessory are never answered from the same fetch.                   *)
(***************************************************************************)
\* The fetch that answers the poll started in this step by accessory a: the
\* one it awaits, or the one whose result it took from the cache.
TickSource(a) ==
    IF accessories'[a].polling # 0
    THEN calls'[accessories'[a].polling].fetch
    ELSE accessories'[a].answeredBy

\* The poll before this one was started by the timer too.
TickedBefore(a) == accessories[a].due > minIntervalMs

C28_TickStep ==
    \A a \in DOMAIN accessories :
        TimerTicks(a) =>
            /\ inFlight = 0 => NewGets # {}
            /\ (TickedBefore(a) /\ accessories[a].polling = 0) =>
                   TickSource(a) # accessories[a].answeredBy

C28_TicksAlwaysFetch == [][C28_TickStep]_vars

(***************************************************************************)
(* C29.  After every successful poll of the pumps accessory, the Active    *)
(* value pushed for an enabled pump is ACTIVE if and only if the           *)
(* RotationSpeed pushed for it is greater than 0, whatever state the API   *)
(* reports for the pump (off, on, low, high, or none) and whatever the     *)
(* mode of the pump (two-state, three-state).                              *)
(***************************************************************************)
\* What the pumps accessory shows was pushed by a poll (the polls carry the
\* number of their fetch, the write handlers a negative number).
PumpsPolled ==
    /\ "pumps" \in DOMAIN accessories
    /\ accessories["pumps"].shown.pushedBy > 0

C29_PolledActiveIffSpeed ==
    PumpsPolled =>
        (accessories["pumps"].shown.Active = ACTIVE
            <=> accessories["pumps"].shown.RotationSpeed > 0)

(***************************************************************************)
(* C30.  For an enabled pump, what the read handlers getPumpActive and     *)
(* getPumpSpeed return always agrees with the Active and RotationSpeed     *)
(* values pushed last to the host for that pump, after any polls and       *)
(* writes, the time between a successful setPumpActive or setPumpSpeed     *)
(* and the next poll included.                                             *)
(***************************************************************************)
C30_ReadHandlersAgree ==
    ("pumps" \in DOMAIN accessories /\ accessories["pumps"].shown.pushedBy # 0) =>
        /\ getPumpActive = (accessories["pumps"].shown.Active = ACTIVE)
        /\ getPumpSpeed = accessories["pumps"].shown.RotationSpeed

(***************************************************************************)
(* C31.  When a status that was polled successfully lacks the field of a   *)
(* control (the lights, a pump, a blower or toggle), the poll completes    *)
(* and leaves the characteristic displayed for that control as it was; it  *)
(* writes no default value.                                                *)
(***************************************************************************)
\* The poll of accessory a ends in this step with a status: the call it
\* awaited resolved, or its timer ticked and the cache answered at once.
PollEndsWell(a) ==
    \/ PollCompletes(a) /\ reqs[Awaited(a)].res.st = "ok"
    \/ TimerTicks(a) /\ accessories[a].polling = 0 /\ accessories'[a].polling = 0

PolledStatus(a) ==
    IF accessories[a].polling # 0 THEN Outcome(Awaited(a)).val ELSE lastStatus

C31_AbsentStep ==
    \A a \in DOMAIN accessories :
        (PollEndsWell(a) /\ PolledStatus(a).kind = "obj") =>
            /\ accessories'[a].currentStatus = PolledStatus(a)
            /\ (a = "lights" /\ Content(PolledStatus(a)).rawLights = "absent") =>
                  accessories'[a].shown.On = accessories[a].shown.On
            /\ (a = "pumps" /\ Content(PolledStatus(a)).rawPump = "absent") =>
                  /\ accessories'[a].shown.Active = accessories[a].shown.Active
                  /\ accessories'[a].shown.RotationSpeed =
                        accessories[a].shown.RotationSpeed
            /\ (a = "pumps" /\ Content(PolledStatus(a)).rawSwitch = "absent") =>
                  accessories'[a].shown.On = accessories[a].shown.On

C31_AbsentFieldKeepsDisplay == [][C31_AbsentStep]_vars

(***************************************************************************)
(* C32.  In every configuration the pumps accessory creates no Boost       *)
(* switch: isEnabled('boost') is false.  Whatever the host asks of the     *)
(* switches that exist, and whatever is polled, the plugin never issues    *)
(* PUT /boost.                                                             *)
(***************************************************************************)
C32_NoBoostSwitch ==
    /\ "boost" \notin SwitchServices
    /\ \A r \in DOMAIN reqs : reqs[r].path # "/boost"
    /\ \A w \in DOMAIN writes : writes[w].op # "boost"
    /\ \A w \in DOMAIN handlers :
          handlers[w].handler = "setOn" => w \in DOMAIN reqs \/ w \in Answerable

\* The host has switched on the one switch that exists; the PUT goes to the
\* path of that switch.
C32_Witness ==
    /\ SwitchServices = {config.enabledSwitch}
    /\ \E w \in DOMAIN handlers :
          /\ handlers[w].handler = "setOn"
          /\ handlers[w].value = 1
          /\ handlers[w].outcome = "awaiting"
          /\ w \in DOMAIN reqs
          /\ reqs[w].method = "PUT"
          /\ reqs[w].path \in {"/blowers/1", "/easymode"}

(***************************************************************************)
(* C33.  If the configuration has no apiKey, the platform creates no       *)
(* client, registers no didFinishLaunching handler, sets up no accessory   *)
(* and never issues an HTTP request, whatever the host does afterwards.    *)
(***************************************************************************)
C33_DisabledWithoutKey ==
    config.apiKey = "" =>
        /\ ~platform.client
        /\ ~platform.listening
        /\ setup = 0
        /\ accessories = <<>>
        /\ handlers = <<>>
        /\ reqs = <<>>
        /\ writes = <<>>
        /\ calls = <<>>
        /\ nGets = 0

\* Without an apiKey the host has restored an accessory and has emitted
\* didFinishLaunching.
C33_Witness ==
    /\ config.apiKey = ""
    /\ platform.launched
    /\ platform.restored = MaxRestored

(***************************************************************************)
(* C34.  The poll period is pollIntervalSeconds x 1000 when the configured *)
(* value is a number >= 15, and 60000 ms otherwise.  The poll period       *)
(* handed to every accessory and the minIntervalMs of the client are equal *)
(* to each other, and never below 15000 ms.                                *)
(***************************************************************************)
\* The accessories of this specification are constructed at time 0 and
\* their timers do not tick: due is the period they were handed.
C34_PollPeriod ==
    /\ platform.pollIntervalMs =
          IF config.pollIntervalType = "number" /\ config.pollIntervalSeconds >= 15
          THEN config.pollIntervalSeconds * 1000
          ELSE 60000
    /\ platform.pollIntervalMs >= 15000
    /\ platform.client => minIntervalMs = platform.pollIntervalMs
    /\ \A a \in DOMAIN accessories :
          /\ accessories[a].due = platform.pollIntervalMs
          /\ accessories[a].due = minIntervalMs

\* With pollIntervalSeconds = 16 the four accessories were set up with a
\* period of 16000 ms, the minIntervalMs of the client.
C34_Witness ==
    /\ SetupDone
    /\ config.pollIntervalType = "number"
    /\ config.pollIntervalSeconds = 16
    /\ minIntervalMs = 16000
    /\ Cardinality(DOMAIN accessories) = 4
    /\ \A a \in DOMAIN accessories : accessories[a].due = 16000

(***************************************************************************)
(* C35.  On every exit path of a transport request (success, API error,    *)
(* parse error, network error, abort) the timeout timer of the request is  *)
(* cancelled before the request settles: no timer outlives its request,    *)
(* and an abort never fires for a request that has settled.                *)
(***************************************************************************)
C35_NoTimerOutlives ==
    \A r \in DOMAIN reqs : reqs[r].timer <=> Unsettled(r)

C35_SettleStep ==
    \A r \in DOMAIN reqs :
        /\ SettlesNow(r) =>
              /\ reqs[r].timer
              /\ ~reqs'[r].timer
              /\ reqs'[r].res.aborted => now >= reqs[r].deadline
        /\ (~Unsettled(r) /\ r \in DOMAIN reqs') => reqs'[r] = reqs[r]

C35_TimerCancelled == []C35_NoTimerOutlives /\ [][C35_SettleStep]_vars

\* A request was aborted by its timer while fetch() was pending: it has
\* settled with the abort error and has no timer.
C35_Witness ==
    \E r \in DOMAIN reqs :
        /\ ~Unsettled(r)
        /\ reqs[r].res = Aborted(Err("abort"))
        /\ ~reqs[r].timer
        /\ now >= timeoutMs

(***************************************************************************)
(* C36.  The health indicator of the pH and ORP accessories: the severity  *)
(* is red when the status text is absent or empty, yellow when the text in *)
(* lower case contains 'low-ok' or 'ok-high', green when it otherwise ends *)
(* with 'ok', and red in every other case.  After each successful poll     *)
(* StatusFault is GENERAL_FAULT if and only if the severity is red.        *)
(***************************************************************************)
\* The status text that the accessory a was handed.
HealthText(a) == payloads[1][StatusKey(a)]

\* The text reads the same as cs when letter case is ignored.
Reads(a, cs) ==
    /\ HealthText(a).type = "string"
    /\ toLowerCase(HealthText(a).chars) = toLowerCase(cs)

C36_HealthIndicator ==
    \A a \in DOMAIN accessories :
        accessories[a].polled =>
            /\ (HealthText(a) = Undefined \/ HealthText(a) = String(<<>>)) =>
                  accessories[a].severity = "red"
            /\ (HealthText(a).type = "string" /\ HealthText(a).chars # <<>>) =>
                  accessories[a].severity =
                      IF \/ includes(toLowerCase(HealthText(a).chars), LowOk)
                         \/ includes(toLowerCase(HealthText(a).chars), OkHigh)
                      THEN "yellow"
                      ELSE IF endsWith(toLowerCase(HealthText(a).chars), <<"o", "k">>)
                      THEN "green"
                      ELSE "red"
            /\ Reads(a, <<"p", "H", " ", "O", "K">>) => accessories[a].severity = "green"
            /\ Reads(a, <<"p", "H", " ", "L", "o", "w", "-", "O", "K">>) =>
                  accessories[a].severity = "yellow"
            /\ Reads(a, <<"p", "H", " ", "O", "K", "-", "H", "i", "g", "h">>) =>
                  accessories[a].severity = "yellow"
            /\ Reads(a, <<"p", "H", " ", "L", "o", "w">>) => accessories[a].severity = "red"
            /\ Reads(a, <<"p", "H", " ", "H", "i", "g", "h">>) =>
                  accessories[a].severity = "red"
            /\ Reads(a, <<"O", "K", " ">>) => accessories[a].severity = "red"
            /\ accessories[a].StatusFault = GENERAL_FAULT <=> accessories[a].severity = "red"
            /\ accessories[a].StatusFault \in {GENERAL_FAULT, NO_FAULT}

\* The pH accessory polled a status with ph_status 'pH Low-OK': it shows
\* yellow and no fault.
C36_Witness ==
    /\ "ph" \in DOMAIN accessories
    /\ accessories["ph"].polled
    /\ HealthText("ph") = String(<<"p", "H", " ", "L", "o", "w", "-", "O", "K">>)
    /\ accessories["ph"].severity = "yellow"
    /\ accessories["ph"].StatusFault = NO_FAULT

=============================================================================
